---- MODULE Spec2Model ----
(***************************************************************************)
(* Model of the OperatorAgent task queue (src/agent/queue_manager.py):     *)
(* the task lifecycle (mark_in_progress, mark_done, mark_error), the       *)
(* atomic save (save_queue_atomic), the line-wise load (load_queue) and    *)
(* the selection of pending work (iter_pending).                           *)
(*                                                                         *)
(* Python values.  A str is a sequence of symbols (one-symbol strings for  *)
(* plain words).  An Optional[str] is a sequence of at most one str:       *)
(* <<>> is None and <<s>> is the str s.  A task dictionary is a record     *)
(* with the eight keys of the queue line.                                  *)
(***************************************************************************)
EXTENDS Integers, Sequences, FiniteSets, TLC

VARIABLES
    items,      \* the in-memory list of task dictionaries
    call,       \* the last lifecycle call: what was asked and what was logged
    fs,         \* the directory of the queue file: name -> content
    sv,         \* the save_queue_atomic call in progress
    origin,     \* how the queue file came to be: the lines put into it
    loaded,     \* what the last load_queue returned
    selected,   \* what the last iter_pending returned
    cycle,      \* the orchestrator's place in its load-work-save cycle
    blk,        \* the block at hand and what its last read or validation gave
    sink,       \* the result files, the first content written to each, the last call
    esink,      \* the error files, the number of calls, the writes that succeeded, the last call
    race        \* the writers racing on the queue file

vars == <<items, call, fs, sv, origin, loaded, selected, cycle, blk, sink, esink, race>>

(* ------------------------------ bounds --------------------------------- *)

MaxTasks == 2

(* --------------------------- Python values ----------------------------- *)

None == <<>>

Some(s) == <<s>>

Str(c) == <<c>>

PENDING == Str("pending")

IN_PROGRESS == Str("in_progress")

DONE == Str("done")

ERROR == Str("error")

Statuses == {PENDING, IN_PROGRESS, DONE, ERROR}

Terminal == {DONE, ERROR}

(* ---------------------------- lifecycle -------------------------------- *)

\* next((t for t in items if t.get("id") == task_id), None): the index of the
\* first task with that id, 0 when there is none.
FindTask(its, task_id) ==
    IF \E i \in 1..Len(its) : its[i].id = task_id
    THEN CHOOSE i \in 1..Len(its) :
            /\ its[i].id = task_id
            /\ \A j \in 1..(i - 1) : its[j].id # task_id
    ELSE 0

\* A lifecycle function's effect: the list after the call and the line it logged.
Effect(its, logged) == [items |-> its, log |-> logged]

\* mark_in_progress without its guard on terminal tasks.
mark_in_progress_restarts(its, task_id) ==
    LET i == FindTask(its, task_id) IN
    IF i = 0 THEN Effect(its, "not_found")
    ELSE IF its[i].status = IN_PROGRESS THEN Effect(its, "no_change")
    ELSE Effect([its EXCEPT ![i].status = IN_PROGRESS], "marked")

mark_in_progress(its, task_id) ==
    LET i == FindTask(its, task_id) IN
    IF i = 0 THEN Effect(its, "not_found")
    ELSE IF its[i].status = IN_PROGRESS THEN Effect(its, "no_change")
    ELSE IF its[i].status \in {DONE, ERROR} THEN Effect(its, "rejected")
    ELSE Effect([its EXCEPT ![i].status = IN_PROGRESS], "marked")

\* mark_done that forgets to record the result path.
mark_done_no_path(its, task_id, result_path, completed_at) ==
    LET i == FindTask(its, task_id) IN
    IF i = 0 THEN Effect(its, "not_found")
    ELSE IF its[i].status = DONE THEN Effect(its, "no_change")
    ELSE IF its[i].status = ERROR THEN Effect(its, "rejected")
    ELSE Effect([its EXCEPT ![i].status = DONE,
                            ![i].completed_at = completed_at,
                            ![i].error_path = None,
                            ![i].error_msg = None], "marked")

\* mark_done that treats a task already done like an open one.
mark_done_again(its, task_id, result_path, completed_at) ==
    LET i == FindTask(its, task_id) IN
    IF i = 0 THEN Effect(its, "not_found")
    ELSE IF its[i].status = ERROR THEN Effect(its, "rejected")
    ELSE Effect([its EXCEPT ![i].status = DONE,
                            ![i].result_path = result_path,
                            ![i].completed_at = completed_at,
                            ![i].error_path = None,
                            ![i].error_msg = None], "marked")

\* mark_done that records the new path and time on a task already done.
mark_done_restamps(its, task_id, result_path, completed_at) ==
    LET i == FindTask(its, task_id) IN
    IF i = 0 THEN Effect(its, "not_found")
    ELSE IF its[i].status = ERROR THEN Effect(its, "rejected")
    ELSE Effect([its EXCEPT ![i].status = DONE,
                            ![i].result_path = result_path,
                            ![i].completed_at = completed_at,
                            ![i].error_path = None,
                            ![i].error_msg = None],
                IF its[i].status = DONE THEN "no_change" ELSE "marked")

\* mark_done that leaves the error fields as they are.
mark_done_keeps_error(its, task_id, result_path, completed_at) ==
    LET i == FindTask(its, task_id) IN
    IF i = 0 THEN Effect(its, "not_found")
    ELSE IF its[i].status = DONE THEN Effect(its, "no_change")
    ELSE IF its[i].status = ERROR THEN Effect(its, "rejected")
    ELSE Effect([its EXCEPT ![i].status = DONE,
                            ![i].result_path = result_path,
                            ![i].completed_at = completed_at], "marked")

mark_done(its, task_id, result_path, completed_at) ==
    LET i == FindTask(its, task_id) IN
    IF i = 0 THEN Effect(its, "not_found")
    ELSE IF its[i].status = DONE THEN Effect(its, "no_change")
    ELSE IF its[i].status = ERROR THEN Effect(its, "rejected")
    ELSE Effect([its EXCEPT ![i].status = DONE,
                            ![i].result_path = result_path,
                            ![i].completed_at = completed_at,
                            ![i].error_path = None,
                            ![i].error_msg = None], "marked")

\* mark_error without its guard on done tasks.
mark_error_over_done(its, task_id, error_msg, error_path, completed_at) ==
    LET i == FindTask(its, task_id) IN
    IF i = 0 THEN Effect(its, "not_found")
    ELSE IF its[i].status = ERROR THEN Effect(its, "no_change")
    ELSE Effect([its EXCEPT ![i].status = ERROR,
                            ![i].error_msg = error_msg,
                            ![i].error_path = error_path,
                            ![i].completed_at = completed_at,
                            ![i].result_path = None], "marked")

\* mark_error that leaves the result path as it is.
mark_error_keeps_result(its, task_id, error_msg, error_path, completed_at) ==
    LET i == FindTask(its, task_id) IN
    IF i = 0 THEN Effect(its, "not_found")
    ELSE IF its[i].status = ERROR THEN Effect(its, "no_change")
    ELSE IF its[i].status = DONE THEN Effect(its, "rejected")
    ELSE Effect([its EXCEPT ![i].status = ERROR,
                            ![i].error_msg = error_msg,
                            ![i].error_path = error_path,
                            ![i].completed_at = completed_at], "marked")

mark_error(its, task_id, error_msg, error_path, completed_at) ==
    LET i == FindTask(its, task_id) IN
    IF i = 0 THEN Effect(its, "not_found")
    ELSE IF its[i].status = ERROR THEN Effect(its, "no_change")
    ELSE IF its[i].status = DONE THEN Effect(its, "rejected")
    ELSE Effect([its EXCEPT ![i].status = ERROR,
                            ![i].error_msg = error_msg,
                            ![i].error_path = error_path,
                            ![i].completed_at = completed_at,
                            ![i].result_path = None], "marked")

(* ------------------- json.dumps / json.loads of a line ----------------- *)
(* File contents and JSON texts are sequences of symbols.  The symbols     *)
(* QUOTE, BACKSLASH, LF and CR are the characters the encoding treats      *)
(* specially; "K:name" stands for the member prefix "name": of an object,  *)
(* and "," for the separator; every other symbol is an ordinary character. *)

DQ == "QUOTE"

BS == "BACKSLASH"

LF == "LF"

CR == "CR"

Digits == <<"0", "1", "2", "3", "4", "5", "6", "7", "8", "9">>

DigitSet == {Digits[d] : d \in 1..Len(Digits)}

DigitVal(c) == (CHOOSE d \in 1..Len(Digits) : Digits[d] = c) - 1

KeySyms ==
    {"K:id", "K:status", "K:priority", "K:created_at", "K:result_path",
     "K:error_path", "K:error_msg", "K:completed_at", "K:note"}

\* The escape json.dumps(..., ensure_ascii=False) writes for one character.
EscapeChar(c) ==
    CASE c = DQ -> <<BS, DQ>>
      [] c = BS -> <<BS, BS>>
      [] c = LF -> <<BS, "n">>
      [] c = CR -> <<BS, "r">>
      [] OTHER -> <<c>>

RECURSIVE EscapeStr(_)
EscapeStr(s) ==
    IF s = <<>> THEN <<>> ELSE EscapeChar(Head(s)) \o EscapeStr(Tail(s))

\* An encoder that writes the characters of a str as they are.
DumpStr_raw(s) == <<DQ>> \o s \o <<DQ>>

DumpStr(s) == <<DQ>> \o EscapeStr(s) \o <<DQ>>

DumpOpt(o) == IF o = None THEN <<"null">> ELSE DumpStr(o[1])

RECURSIVE DumpNat(_)
DumpNat(n) ==
    IF n < 10 THEN <<Digits[n + 1]>>
    ELSE DumpNat(n \div 10) \o <<Digits[(n % 10) + 1]>>

DumpInt(n) == IF n < 0 THEN <<"-">> \o DumpNat(-n) ELSE DumpNat(n)

\* json.dumps(task, ensure_ascii=False): the keys in the dictionary's order.
json_dumps(task) ==
    <<"{", "K:id">> \o DumpStr(task.id)
    \o <<",", "K:status">> \o DumpStr(task.status)
    \o <<",", "K:priority">> \o DumpInt(task.priority)
    \o <<",", "K:created_at">> \o DumpOpt(task.created_at)
    \o <<",", "K:result_path">> \o DumpOpt(task.result_path)
    \o <<",", "K:error_path">> \o DumpOpt(task.error_path)
    \o <<",", "K:error_msg">> \o DumpOpt(task.error_msg)
    \o <<",", "K:completed_at">> \o DumpOpt(task.completed_at)
    \o <<"}">>

\* A parsed JSON value: <<"str", s>>, <<"int", n>>, <<"null">> or
\* <<"obj", members>> with members a sequence of <<key, value>>.
ParseFail == [ok |-> FALSE, val |-> <<"null">>, next |-> 0]

Parsed(v, n) == [ok |-> TRUE, val |-> v, next |-> n]

\* The rest of a string after its opening quote.
RECURSIVE ScanStr(_, _, _)
ScanStr(s, i, acc) ==
    IF i > Len(s) THEN ParseFail
    ELSE IF s[i] = DQ THEN Parsed(<<"str", acc>>, i + 1)
    ELSE IF s[i] = BS THEN
        IF i + 1 > Len(s) THEN ParseFail
        ELSE IF s[i + 1] \in {DQ, BS}
            THEN ScanStr(s, i + 2, Append(acc, s[i + 1]))
        ELSE IF s[i + 1] = "n" THEN ScanStr(s, i + 2, Append(acc, LF))
        ELSE IF s[i + 1] = "r" THEN ScanStr(s, i + 2, Append(acc, CR))
        ELSE ParseFail
    ELSE IF s[i] \in {LF, CR} THEN ParseFail
    ELSE ScanStr(s, i + 1, Append(acc, s[i]))

RECURSIVE ScanDigits(_, _, _)
ScanDigits(s, i, acc) ==
    IF i <= Len(s) /\ s[i] \in DigitSet
    THEN ScanDigits(s, i + 1, 10 * acc + DigitVal(s[i]))
    ELSE [val |-> acc, next |-> i]

\* An integer: an optional minus, then 0 or a digit string without leading 0.
ParseNumber(s, i) ==
    LET neg == s[i] = "-"
        j == IF neg THEN i + 1 ELSE i
    IN  IF j > Len(s) \/ s[j] \notin DigitSet THEN ParseFail
        ELSE LET d == IF s[j] = "0" THEN [val |-> 0, next |-> j + 1]
                      ELSE ScanDigits(s, j + 1, DigitVal(s[j]))
             IN  Parsed(<<"int", IF neg THEN -d.val ELSE d.val>>, d.next)

RECURSIVE ParseValue(_, _)
RECURSIVE ParseMembers(_, _, _)

ParseMembers(s, i, acc) ==
    IF i > Len(s) \/ s[i] \notin KeySyms THEN ParseFail
    ELSE LET v == ParseValue(s, i + 1)
             members == Append(acc, <<s[i], v.val>>)
         IN  IF ~v.ok \/ v.next > Len(s) THEN ParseFail
             ELSE IF s[v.next] = "," THEN ParseMembers(s, v.next + 1, members)
             ELSE IF s[v.next] = "}" THEN Parsed(<<"obj", members>>, v.next + 1)
             ELSE ParseFail

ParseValue(s, i) ==
    IF i > Len(s) THEN ParseFail
    ELSE IF s[i] = DQ THEN ScanStr(s, i + 1, <<>>)
    ELSE IF s[i] = "null" THEN Parsed(<<"null">>, i + 1)
    ELSE IF s[i] = "-" \/ s[i] \in DigitSet THEN ParseNumber(s, i)
    ELSE IF s[i] = "{" THEN
        IF i + 1 <= Len(s) /\ s[i + 1] = "}"
        THEN Parsed(<<"obj", <<>>>>, i + 2)
        ELSE ParseMembers(s, i + 1, <<>>)
    ELSE ParseFail

\* json.loads(line): one value that is the whole line, else JSONDecodeError.
json_loads(line) ==
    LET r == ParseValue(line, 1)
    IN  IF r.ok /\ r.next = Len(line) + 1
        THEN [ok |-> TRUE, val |-> r.val]
        ELSE [ok |-> FALSE, val |-> <<"null">>]

(* dictionary access on a parsed object: the last member of a key counts *)

HasKey(members, k) == \E i \in 1..Len(members) : members[i][1] = k

GetKey(members, k) ==
    members[CHOOSE i \in 1..Len(members) :
               /\ members[i][1] = k
               /\ \A j \in (i + 1)..Len(members) : members[j][1] # k][2]

\* entry.get(k) of an optional string member
GetOpt(members, k) ==
    IF HasKey(members, k) /\ GetKey(members, k)[1] = "str"
    THEN Some(GetKey(members, k)[2])
    ELSE None

\* The queue line schema: an object with a string id, a status of the
\* enumeration and an integer priority; created_at, result_path, error_path,
\* error_msg and completed_at are strings or null where present.
SchemaValid(v) ==
    /\ v[1] = "obj"
    /\ HasKey(v[2], "K:id") /\ GetKey(v[2], "K:id")[1] = "str"
    /\ HasKey(v[2], "K:status") /\ GetKey(v[2], "K:status")[1] = "str"
    /\ GetKey(v[2], "K:status")[2] \in Statuses
    /\ HasKey(v[2], "K:priority") /\ GetKey(v[2], "K:priority")[1] = "int"
    /\ \A k \in {"K:created_at", "K:result_path", "K:error_path",
                 "K:error_msg", "K:completed_at"} :
          HasKey(v[2], k) => GetKey(v[2], k)[1] \in {"str", "null"}

\* The task dictionary a valid entry is, on the eight keys of a queue line.
EntryTask(v) ==
    [id |-> GetKey(v[2], "K:id")[2],
     status |-> GetKey(v[2], "K:status")[2],
     priority |-> GetKey(v[2], "K:priority")[2],
     created_at |-> GetOpt(v[2], "K:created_at"),
     result_path |-> GetOpt(v[2], "K:result_path"),
     error_path |-> GetOpt(v[2], "K:error_path"),
     error_msg |-> GetOpt(v[2], "K:error_msg"),
     completed_at |-> GetOpt(v[2], "K:completed_at")]

(* ----------------------------- load_queue ------------------------------ *)

\* Iterating a file opened in text mode: LF, CR and CR LF each end a line.
\* LineBreaks is the set of positions where a line ends (the LF of a CR LF).
LineBreaks(content) ==
    {i \in 1..Len(content) :
        \/ content[i] = LF
        \/ /\ content[i] = CR
           /\ ~(i + 1 <= Len(content) /\ content[i + 1] = LF)}

\* The k-th line break, 0 for k = 0.
BreakAt(content, k) ==
    IF k = 0 THEN 0
    ELSE CHOOSE b \in LineBreaks(content) :
            Cardinality({x \in LineBreaks(content) : x <= b}) = k

\* A line as the iteration yields it: its line end translated to LF.
Translated(seg) ==
    IF Len(seg) >= 2 /\ seg[Len(seg) - 1] = CR /\ seg[Len(seg)] = LF
    THEN Append(SubSeq(seg, 1, Len(seg) - 2), LF)
    ELSE IF seg # <<>> /\ seg[Len(seg)] = CR
    THEN Append(SubSeq(seg, 1, Len(seg) - 1), LF)
    ELSE seg

\* The lines of the file; a last line without a line end is yielded too.
ReadLines(content) ==
    LET n == Cardinality(LineBreaks(content))
        last == BreakAt(content, n)
        whole == [k \in 1..n |->
                    Translated(SubSeq(content, BreakAt(content, k - 1) + 1,
                                      BreakAt(content, k)))]
    IN  IF last < Len(content)
        THEN Append(whole, SubSeq(content, last + 1, Len(content)))
        ELSE whole

\* line.rstrip("\n\r")
RECURSIVE RStrip(_)
RStrip(line) ==
    IF line # <<>> /\ line[Len(line)] \in {LF, CR}
    THEN RStrip(SubSeq(line, 1, Len(line) - 1))
    ELSE line

Loaded(its, processed) ==
    [raised |-> "none", items |-> its, skipped |-> processed - Len(its)]

\* The loop of a load that gives up at the first line it cannot use.
RECURSIVE LoadAbortFrom(_, _, _, _)
LoadAbortFrom(lines, k, its, processed) ==
    IF k > Len(lines) THEN Loaded(its, processed)
    ELSE LET line == RStrip(lines[k])
             entry == json_loads(line)
         IN  IF line = <<>> THEN LoadAbortFrom(lines, k + 1, its, processed)
             ELSE IF ~entry.ok THEN Loaded(its, processed + 1)
             ELSE IF ~SchemaValid(entry.val) THEN Loaded(its, processed + 1)
             ELSE LoadAbortFrom(lines, k + 1,
                                Append(its, EntryTask(entry.val)),
                                processed + 1)

load_queue_aborting(content) == LoadAbortFrom(ReadLines(content), 1, <<>>, 0)

\* The loop of load_queue over the lines of the file.
RECURSIVE LoadFrom(_, _, _, _)
LoadFrom(lines, k, its, processed) ==
    IF k > Len(lines) THEN Loaded(its, processed)
    ELSE LET line == RStrip(lines[k])
             entry == json_loads(line)
         IN  IF line = <<>> THEN LoadFrom(lines, k + 1, its, processed)
             ELSE IF ~entry.ok THEN LoadFrom(lines, k + 1, its, processed + 1)
             ELSE IF ~SchemaValid(entry.val)
                 THEN LoadFrom(lines, k + 1, its, processed + 1)
             ELSE LoadFrom(lines, k + 1, Append(its, EntryTask(entry.val)),
                           processed + 1)

load_queue(content) == LoadFrom(ReadLines(content), 1, <<>>, 0)

(* ------------------------------ the files ------------------------------ *)

QueuePath == "queue.jsonl"

TmpNames == {"tmp_1", "tmp_2"}

FileNames == {QueuePath} \cup TmpNames

\* A directory: each name has no file (None) or a file (Some(content)).
EmptyDir == [n \in FileNames |-> None]

\* What save_queue_atomic writes for a list: one line per task.
RECURSIVE SerializeFrom(_, _)
SerializeFrom(its, k) ==
    IF k > Len(its) THEN <<>>
    ELSE json_dumps(its[k]) \o <<LF>> \o SerializeFrom(its, k + 1)

\* A save that writes only the tasks still open.
Serialize_open(its) ==
    SerializeFrom(SelectSeq(its, LAMBDA t : t.status \notin Terminal), 1)

Serialize(its) == SerializeFrom(its, 1)

(* ----------------------- _parse_datetime, iter_pending ----------------- *)
(* A created_at string is a sequence of symbols: "T1", "T2", "T3" stand    *)
(* for a zero-padded date-time body at hour 1, 2, 3 of one day, "L2" for   *)
(* the body at hour 2 written without zero padding, "Z", "+00:00" and      *)
(* "+01:00" for a zone suffix, " " for a blank and "x" for any other text. *)

IsoBodies == {"T1", "T2", "T3"}

LooseBodies == {"L2"}

Hour(b) == CASE b = "T1" -> 1 [] b = "T2" -> 2 [] b = "T3" -> 3 [] b = "L2" -> 2

ZoneOffset(z) == CASE z = "+00:00" -> 0 [] z = "+01:00" -> 1

\* The order of the symbols as characters (code points of their first
\* difference): blank, plus sign, digits, upper case, lower case.
Rank(c) ==
    CASE c = " " -> 0
      [] c = "+00:00" -> 1
      [] c = "+01:00" -> 2
      [] c = "T1" -> 3
      [] c = "T2" -> 4
      [] c = "T3" -> 5
      [] c = "L2" -> 6
      [] c = "Z" -> 7
      [] c = "x" -> 8

\* dt.strip()
RECURSIVE Strip(_)
Strip(s) ==
    IF s # <<>> /\ Head(s) = " " THEN Strip(Tail(s))
    ELSE IF s # <<>> /\ s[Len(s)] = " " THEN Strip(SubSeq(s, 1, Len(s) - 1))
    ELSE s

NoDatetime == [ok |-> FALSE, val |-> <<"none">>]

\* datetime.fromisoformat: a padded body is a naive datetime, a padded body
\* with a numeric offset an aware one (kept here as its UTC hour).
FromIsoFormat(s) ==
    IF Len(s) = 1 /\ s[1] \in IsoBodies
    THEN [ok |-> TRUE, val |-> <<"naive", Hour(s[1])>>]
    ELSE IF Len(s) = 2 /\ s[1] \in IsoBodies /\ s[2] \in {"+00:00", "+01:00"}
    THEN [ok |-> TRUE, val |-> <<"aware", Hour(s[1]) - ZoneOffset(s[2])>>]
    ELSE NoDatetime

\* datetime.strptime(dt, "%Y-%m-%dT%H:%M:%S"): a body, padded or not.
Strptime(s) ==
    IF Len(s) = 1 /\ s[1] \in IsoBodies \cup LooseBodies
    THEN [ok |-> TRUE, val |-> <<"naive", Hour(s[1])>>]
    ELSE NoDatetime

\* _parse_datetime: None, a datetime, or the stripped string itself.
parse_datetime(dt) ==
    IF dt = None THEN <<"none">>
    ELSE LET s == Strip(dt[1])
             iso == IF s[Len(s)] = "Z"
                    THEN Append(SubSeq(s, 1, Len(s) - 1), "+00:00")
                    ELSE s
         IN  IF s = <<>> THEN <<"str", s>>
             ELSE IF FromIsoFormat(iso).ok THEN FromIsoFormat(iso).val
             ELSE IF Strptime(s).ok THEN Strptime(s).val
             ELSE <<"str", s>>

\* str < str: by the first differing character, a proper prefix first.
RECURSIVE StrLess(_, _)
StrLess(s, t) ==
    IF t = <<>> THEN FALSE
    ELSE IF s = <<>> THEN TRUE
    ELSE IF Head(s) # Head(t) THEN Rank(Head(s)) < Rank(Head(t))
    ELSE StrLess(Tail(s), Tail(t))

\* The sort key of a task: (-priority, _parse_datetime(created_at)).
SortKey(task) == <<-task.priority, parse_datetime(task.created_at)>>

\* k1 < k2 on two sort keys, as tuples compare: the first components decide
\* when they differ; equal second components make the keys equal; otherwise
\* the second components are compared, which raises TypeError unless both
\* are strings, both naive datetimes or both aware datetimes.
KeyLess(k1, k2) ==
    IF k1[1] # k2[1] THEN (IF k1[1] < k2[1] THEN "lt" ELSE "ge")
    ELSE IF k1[2] = k2[2] THEN "ge"
    ELSE IF k1[2][1] # k2[2][1] THEN "TypeError"
    ELSE IF k1[2][1] = "str"
        THEN (IF StrLess(k1[2][2], k2[2][2]) THEN "lt" ELSE "ge")
    ELSE (IF k1[2][2] < k2[2][2] THEN "lt" ELSE "ge")

Sorted(seq) == [raised |-> "none", result |-> seq]

SortRaised == [raised |-> "TypeError", result |-> <<>>]

\* Insert x into the sorted list, behind every element it is not less than.
RECURSIVE InsertAt(_, _, _)
InsertAt(sorted, x, j) ==
    IF j = 0 THEN Sorted(<<x>> \o sorted)
    ELSE LET c == KeyLess(SortKey(x), SortKey(sorted[j]))
         IN  IF c = "TypeError" THEN SortRaised
             ELSE IF c = "lt" THEN InsertAt(sorted, x, j - 1)
             ELSE Sorted(SubSeq(sorted, 1, j) \o <<x>>
                         \o SubSeq(sorted, j + 1, Len(sorted)))

\* list.sort(key=...): a stable sort by "<" on the keys; a comparison that
\* raises ends it with that error.
RECURSIVE SortFrom(_, _, _)
SortFrom(list, k, sorted) ==
    IF k > Len(list) THEN Sorted(sorted)
    ELSE LET r == InsertAt(sorted, list[k], Len(sorted))
         IN  IF r.raised # "none" THEN SortRaised
             ELSE SortFrom(list, k + 1, r.result)

\* A filter that also keeps the tasks already started.
IsPending_open(task) == task.status \in {PENDING, IN_PROGRESS}

IsPending(task) == task.status = PENDING

iter_pending(its) == SortFrom(SelectSeq(its, IsPending), 1, <<>>)

(* --------------------------- save_queue_atomic ------------------------- *)

\* tempfile.NamedTemporaryFile(dir=dir_name, delete=False): the names it can
\* create, each one not in the directory yet.
NamedTemporaryFile_target(dir) == {QueuePath}

NamedTemporaryFile(dir) == {n \in TmpNames : dir[n] = None}

\* os.remove(name) that leaves the file where it is.
os_remove_skipped(dir, name) == dir

os_remove(dir, name) == [dir EXCEPT ![name] = None]

\* An os.replace that leaves a target that exists as it is and drops the
\* temporary file.
os_replace_first(dir, temp_path, path) ==
    IF dir[path] # None THEN os_remove(dir, temp_path)
    ELSE [n \in FileNames |->
            IF n = path THEN dir[temp_path]
            ELSE IF n = temp_path THEN None
            ELSE dir[n]]

\* os.replace(temp_path, path): the target takes the content of the
\* temporary file, whose name is gone, in one step.
os_replace(dir, temp_path, path) ==
    [n \in FileNames |->
        IF n = path THEN dir[temp_path]
        ELSE IF n = temp_path THEN None
        ELSE dir[n]]

\* Appending data to a file of the directory.
Appended(dir, name, data) ==
    [dir EXCEPT ![name] = Some(dir[name][1] \o data)]

\* No call of save_queue_atomic in progress.
SvIdle ==
    [pc |-> "idle", items |-> <<>>, before |-> EmptyDir, tmp |-> None,
     buf |-> <<>>, k |-> 1, failed |-> "none", outcome |-> "none"]

\* The orchestrator has not loaded the queue yet.
NoCycle == [phase |-> "load", n |-> 0, last |-> "none", left |-> {}, ends |-> {}]


\* The processes that write the queue file side by side.
Writers == {"w1", "w2"}

\* A writer that has not begun: pc the statement to run next, items its list
\* in memory, did the lifecycle call it made, tmp, buf and k as in a save
\* call, epoch the number of replaces made when it loaded.
IdleWriter ==
    [pc |-> "load", items |-> <<>>, did |-> [op |-> "none"], tmp |-> None,
     buf |-> <<>>, k |-> 1, epoch |-> 0, outcome |-> "none"]

\* No writers at work: first is the queue file they find, replaced the
\* writers whose replace succeeded, in order.
NoRace == [w |-> [p \in Writers |-> IdleWriter], first |-> None,
           replaced |-> <<>>]
(* ------------------------------ block_reader --------------------------- *)
(* A block is the dictionary json.load gives: a record whose fields hold   *)
(* tagged values, <<"str", s>>, <<"int", n>>, <<"bool", b>>, <<"null">>,   *)
(* <<"big", k>> for an integer too large for a float (k times the largest  *)
(* float), or <<"absent">> for a key the dictionary does not have.  A text is      *)
(* described by its length and the kind of its characters; the bytes of an *)
(* encoded text by their number and what they spell.  sha256 is taken to   *)
(* be free of collisions: its digest stands for the bytes hashed.          *)

MaxTextLen == 20000

MaxSizeBytes == 1048576

\* allow_diff = recorded_size * 0.08, as the fraction TolNum / TolDen.
TolNum == 8

TolDen == 100

Absent == <<"absent">>

BStr(s) == <<"str", s>>

BInt(n) == <<"int", n>>

\* An integer of k times the largest float or more, k >= 1.
BBig(k) == <<"big", k>>

\* A text of n characters, all plain (ASCII), all euro signs, or all lone
\* surrogates.
Text(n, chars) == [len |-> n, chars |-> chars]

Bytes(n, spell) == [size |-> n, spell |-> spell]

Encoded(b) == [raised |-> "none", bytes |-> b]

EncodeError(e) == [raised |-> e, bytes |-> Bytes(0, "none")]

\* An encoding name with a NUL character in it.
NulName == "utf-8<NUL>"

\* text.encode(encoding, errors="strict"): an unknown name gives
\* LookupError, a character outside the charset UnicodeEncodeError; the
\* codec "undefined" raises UnicodeError for every text, and a name holding
\* a NUL character ValueError.
Encode(text, encoding) ==
    CASE encoding = "utf-8" ->
            IF text.chars = "surrogate" THEN EncodeError("UnicodeEncodeError")
            ELSE IF text.chars = "euro"
                THEN Encoded(Bytes(3 * text.len, "euro"))
            ELSE Encoded(Bytes(text.len, "plain"))
      [] encoding = "ascii" ->
            IF text.chars = "plain" THEN Encoded(Bytes(text.len, "plain"))
            ELSE EncodeError("UnicodeEncodeError")
      [] encoding = "undefined" -> EncodeError("UnicodeError")
      [] encoding = NulName -> EncodeError("ValueError")
      [] OTHER -> EncodeError("LookupError")

\* text.encode("utf-8", errors="replace"): a lone surrogate becomes "?".
EncodeReplace(text) ==
    IF text.chars = "surrogate" THEN Bytes(text.len, "qmark")
    ELSE Encode(text, "utf-8").bytes

\* hashlib.sha256(encoded_bytes).hexdigest(): lowercase hex.
Sha256Hex(b) == [digest |-> b, upper |-> FALSE]

\* obj.get(key, default)
BGet(obj, key, default) == IF obj[key] = Absent THEN default ELSE obj[key]

BlockStatuses == {"ok", "damaged", "binary"}

\* jsonschema.validate(instance=obj, schema=schema) passes: the block format
\* of the specification, with seq and total_seqs optional.
SchemaConforms(obj) ==
    /\ obj.block_id[1] = "str"
    /\ obj.text[1] = "str"
    /\ obj.encoding[1] = "str"
    /\ obj.size_bytes[1] \in {"int", "big"}
    /\ obj.size_bytes[1] = "int" => obj.size_bytes[2] >= 0
    /\ obj.hash_sha256[1] = "str"
    /\ obj.status[1] = "str" /\ obj.status[2] \in BlockStatuses
    /\ obj.seq[1] \in {"absent", "int"}
    /\ obj.total_seqs[1] \in {"absent", "int"}

\* isinstance(v, int): a bool is an int.
IsInt(v) == v[1] \in {"int", "bool"}

IntOf(v) == IF v[1] = "bool" THEN (IF v[2] THEN 1 ELSE 0) ELSE v[2]

\* The outcome of a validation: the exception raised and the rule it names,
\* the block_id of the messages, and the rules warned about, in order.
Passed(block_id) ==
    [raised |-> "none", rule |-> "none", id |-> block_id, warnings |-> <<>>]

\* One check: if strict: logger.error; raise BlockValidationError;
\* otherwise logger.warning.  Nothing runs after a raise.
Flag(res, violated, rule, strict) ==
    IF res.raised # "none" \/ ~violated THEN res
    ELSE IF strict
        THEN [res EXCEPT !.raised = "BlockValidationError", !.rule = rule]
    ELSE [res EXCEPT !.warnings = Append(@, rule)]

Abs(n) == IF n < 0 THEN -n ELSE n

\* significant_mismatch: size_diff > recorded_size * 0.08 for integer sizes.
significant_mismatch(computed_size, recorded_size) ==
    IF recorded_size = 0 THEN computed_size # 0
    ELSE TolDen * Abs(computed_size - recorded_size) > TolNum * recorded_size

\* The size-tolerance check: recorded_size * 0.08 raises OverflowError for an
\* integer too large for a float, whatever strict is; otherwise the check
\* is gated by strict as the others.
ToleranceCheck(res, computed_size, recorded_size, strict) ==
    IF res.raised # "none" THEN res
    ELSE IF recorded_size[1] = "big"
        THEN [res EXCEPT !.raised = "OverflowError", !.rule = "size_mismatch"]
    ELSE Flag(res, significant_mismatch(computed_size, recorded_size[2]),
              "size_mismatch", strict)

\* A sequence check without the lower bound.
OutOfSequence_upper(seq, total_seqs) ==
    /\ IsInt(seq)
    /\ IsInt(total_seqs)
    /\ ~(IntOf(seq) <= IntOf(total_seqs))

\* isinstance(seq, int) and isinstance(total_seqs, int) and
\* not (1 <= seq <= total_seqs)
OutOfSequence(seq, total_seqs) ==
    /\ IsInt(seq)
    /\ IsInt(total_seqs)
    /\ ~(1 <= IntOf(seq) /\ IntOf(seq) <= IntOf(total_seqs))

\* The encoding check: LookupError and UnicodeEncodeError are handled by the
\* strict flag; any other exception of encode leaves the function.
EncodingCheck(res, enc, strict) ==
    IF res.raised # "none" \/ enc.raised = "none" THEN res
    ELSE IF enc.raised \in {"LookupError", "UnicodeEncodeError"}
        THEN Flag(res, TRUE, "encoding", strict)
    ELSE [res EXCEPT !.raised = enc.raised, !.rule = "encoding"]

\* The status note: logged whatever strict is, never raised.
StatusCheck(res, status) ==
    IF res.raised = "none" /\ status[1] = "str"
       /\ status[2] \in {"damaged", "binary"}
    THEN [res EXCEPT !.warnings = Append(@, "status")]
    ELSE res

\* A validation that lets a schema violation pass with a warning when it
\* is not strict.
validate_block_lenient(obj, strict) ==
    LET block_id == BGet(obj, "block_id", BStr("<unknown>"))
    IN  IF SchemaConforms(obj) THEN Passed(block_id)
        ELSE IF strict
            THEN [Passed(block_id) EXCEPT !.raised = "ValidationError",
                                          !.rule = "schema"]
        ELSE [Passed(block_id) EXCEPT !.warnings = <<"schema">>]

validate_block(obj, strict) ==
    LET block_id == BGet(obj, "block_id", BStr("<unknown>"))
    IN  IF ~SchemaConforms(obj)
        THEN [Passed(block_id) EXCEPT !.raised = "ValidationError",
                                      !.rule = "schema"]
        ELSE
        LET text == BGet(obj, "text", BStr(Text(0, "plain")))[2]
            encoding == BGet(obj, "encoding", BStr("utf-8"))[2]
            recorded_size == BGet(obj, "size_bytes", BInt(0))
            recorded_hash == BGet(obj, "hash_sha256", BStr(""))[2]
            seq == obj.seq
            total_seqs == obj.total_seqs
            r1 == Flag(Passed(block_id), text.len > MaxTextLen,
                       "text_length", strict)
            enc == Encode(text, encoding)
            r2 == EncodingCheck(r1, enc, strict)
            encoded_bytes == IF enc.raised = "none" THEN enc.bytes
                             ELSE EncodeReplace(text)
            computed_size == encoded_bytes.size
            r3 == Flag(r2, computed_size > MaxSizeBytes, "size_bound", strict)
            r4 == ToleranceCheck(r3, computed_size, recorded_size, strict)
            computed_hash == Sha256Hex(encoded_bytes)
            r5 == Flag(r4, computed_hash # recorded_hash, "hash_mismatch",
                       strict)
            r6 == Flag(r5, OutOfSequence(seq, total_seqs), "sequence", strict)
        IN  StatusCheck(r6, obj.status)

\* What a read gives: the outcome of the validation and the dictionary
\* returned, None when an exception left the function.
ReadResult(res, returned) == [outcome |-> res, returned |-> returned]

\* read_block(path) on a file holding a JSON object, another JSON value, or
\* no JSON at all.
read_block(file) ==
    IF file.kind # "object"
    THEN ReadResult([Passed(BStr("<unknown>")) EXCEPT
                        !.raised = "JSONDecodeError", !.rule = "json"], None)
    ELSE LET data == file.obj
             strict == data.status = BStr("ok")
             res == validate_block(data, strict)
         IN  ReadResult(res, IF res.raised = "none" THEN Some(data) ELSE None)

\* No block has been read or validated yet.
NoBlock ==
    [file |-> [kind |-> "none"], op |-> "none", strict |-> FALSE,
     out |-> ReadResult(Passed(BStr("<unknown>")), None)]

(* ------------------------------ result_writer -------------------------- *)
(* The result directory maps the path of each block's result file to None  *)
(* (no file) or Some(content).  An analysis payload is a record; its kind  *)
(* says whether it has the shape the payload schema asks for.              *)

BlockIds == {"b1", "b2"}

\* base_path / "Archive" / "AnalysisResults" / f"{block_id}.json"
ResultPathOf(block_id) == <<"Archive", "AnalysisResults", block_id, ".json">>

ResultPathsOf == {ResultPathOf(b) : b \in BlockIds}

NoResults == [p \in ResultPathsOf |-> None]

\* jsonschema.validate(analysis_obj, payload schema) passes.
PayloadConforms(analysis_obj) == analysis_obj.kind = "analysis"

\* jsonschema.validate(result, result schema) passes: the wrapper fields are
\* strings and the payload conforms.
ResultConforms(result) ==
    /\ result.model # None
    /\ result.analysis_version # None
    /\ result.completed_at # None
    /\ PayloadConforms(result.analysis)

\* json.dump(result, f, ensure_ascii=False): the text of the result object.
DumpResult(result) == <<"json", result>>

\* What a sink call gives: the directory after it, the exception raised and
\* the path returned.
SinkEffect(files, raised, returned) ==
    [files |-> files, raised |-> raised, returned |-> returned]

\* A write_result that writes over the file it finds.
write_result_overwriting(files, block_id, model, analysis_version, analysis_obj, completed_at_iso, fault) ==
    LET result == [block_id |-> block_id, model |-> model,
                   completed_at |-> completed_at_iso,
                   analysis_version |-> analysis_version,
                   analysis |-> analysis_obj]
        out_path == ResultPathOf(block_id)
    IN  IF ~PayloadConforms(analysis_obj) \/ ~ResultConforms(result)
        THEN SinkEffect(files, "ValidationError", None)
        ELSE IF fault = "write"
            THEN SinkEffect([files EXCEPT ![out_path] = None], "OSError", None)
        ELSE SinkEffect([files EXCEPT ![out_path] = Some(DumpResult(result))],
                        "none", Some(out_path))

\* write_result(base_dir, block_id, model, analysis_version, analysis_obj,
\* completed_at_iso); fault says whether writing the file raises, in which
\* case the handler removes what was written and raises again.
write_result(files, block_id, model, analysis_version, analysis_obj, completed_at_iso, fault) ==
    LET result == [block_id |-> block_id, model |-> model,
                   completed_at |-> completed_at_iso,
                   analysis_version |-> analysis_version,
                   analysis |-> analysis_obj]
        out_path == ResultPathOf(block_id)
    IN  IF ~PayloadConforms(analysis_obj) \/ ~ResultConforms(result)
        THEN SinkEffect(files, "ValidationError", None)
        ELSE IF files[out_path] # None
            THEN SinkEffect(files, "none", Some(out_path))
        ELSE IF fault = "write"
            THEN SinkEffect([files EXCEPT ![out_path] = None], "OSError", None)
        ELSE SinkEffect([files EXCEPT ![out_path] = Some(DumpResult(result))],
                        "none", Some(out_path))

\* The result sink before any call: no file, no call, and for each path the
\* content of the first write that succeeded (None so far).
NoSink ==
    [files |-> NoResults, first |-> NoResults,
     last |-> [op |-> "none"]]

(* ------------------------------ error_writer --------------------------- *)
(* The error directory is a function from the names of the files in it to  *)
(* their contents.  Names, block ids and timestamps are sequences of       *)
(* characters; ".json" is one symbol.                                      *)

MaxErrors == 3

NoErrorFiles == [name \in {} |-> <<>>]

\* str.replace(ch, ""): the string without its occurrences of ch.
Replaced(s, ch) == SelectSeq(s, LAMBDA x : x # ch)

\* timestamp_iso.replace("-", "").replace(":", "")
suffix_ts(timestamp_iso) == Replaced(Replaced(timestamp_iso, "-"), ":")

\* f"{block_id}.json"
base_file(block_id) == block_id \o <<".json">>

\* f"{block_id}__{suffix_ts}.json"
file_name(block_id, timestamp_iso) ==
    block_id \o <<"_", "_">> \o suffix_ts(timestamp_iso) \o <<".json">>

\* jsonschema.validate(error_obj, error schema) passes.
ErrorConforms(error_obj) == error_obj.error_type # None

\* json.dump(error_obj, f, ensure_ascii=False): the text of the error object.
DumpError(error_obj) == <<"json", error_obj>>

\* out_path.open("w") and json.dump: the directory with the file created or
\* written over.
Written(files, out_path, content) ==
    [name \in DOMAIN files \cup {out_path} |->
        IF name = out_path THEN content ELSE files[name]]

\* write_error(base_dir, block_id, task_id, error_type, error_detail,
\* response_text, timestamp_iso)
write_error(files, block_id, task_id, error_type, error_detail, response_text, timestamp_iso) ==
    LET error_obj == [block_id |-> block_id, task_id |-> task_id,
                      error_type |-> error_type,
                      error_detail |-> error_detail,
                      response_text |-> response_text,
                      timestamp |-> timestamp_iso]
        out_path == IF base_file(block_id) \in DOMAIN files
                    THEN file_name(block_id, timestamp_iso)
                    ELSE base_file(block_id)
    IN  IF ~ErrorConforms(error_obj)
        THEN SinkEffect(files, "ValidationError", None)
        ELSE SinkEffect(Written(files, out_path, DumpError(error_obj)),
                        "none", Some(out_path))

\* The error sink before any call: an empty directory, no call made, no
\* write recorded.
NoErrors ==
    [files |-> NoErrorFiles, n |-> 0, log |-> <<>>, last |-> [op |-> "none"]]

(* ------------------- the lifecycle as a state machine ------------------ *)

TaskIds == {Str("a"), Str("b")}

\* Ids a caller may pass: the ids of the queue and one that no task carries.
CallIds == TaskIds \cup {Str("zz")}

ResultPaths == {Some(Str("r1")), Some(Str("r2"))}

ErrorPaths == {Some(Str("e1"))}

ErrorMsgs == {Some(Str("m1"))}

CompletedAts == {Some(Str("c1")), Some(Str("c2"))}

\* A task as the enqueuer leaves it: no outcome field populated.
NewTask(id, status) ==
    [id |-> id, status |-> status, priority |-> 5,
     created_at |-> Some(<<"T1", "Z">>),
     result_path |-> None, error_path |-> None,
     error_msg |-> None, completed_at |-> None]

OpenTasks == {NewTask(id, st) : id \in TaskIds, st \in {PENDING, IN_PROGRESS}}

TaskLists(S) == UNION {[1..n -> S] : n \in 1..MaxTasks}

NoCall == [op |-> "none", id |-> <<>>, prev |-> None, log |-> "none"]

\* What a call found: the status of the addressed task before the call.
Before(its, task_id) ==
    IF FindTask(its, task_id) = 0 THEN None
    ELSE Some(its[FindTask(its, task_id)].status)

NoOrigin == [kind |-> "none", lines |-> <<>>]

NoLoad == [raised |-> "not_called", items |-> <<>>, skipped |-> 0]

\* The variables the lifecycle functions never touch.
NoSelect == [raised |-> "not_called", result |-> <<>>]

storeVars == <<fs, sv, origin, loaded, selected, cycle, blk, sink, esink, race>>

Init ==
    /\ items \in TaskLists(OpenTasks)
    /\ call = NoCall
    /\ fs = EmptyDir
    /\ sv = SvIdle
    /\ race = NoRace
    /\ esink = NoErrors
    /\ sink = NoSink
    /\ blk = NoBlock
    /\ cycle = NoCycle
    /\ origin = NoOrigin
    /\ loaded = NoLoad
    /\ selected = NoSelect

Start(id) ==
    LET r == mark_in_progress(items, id) IN
    /\ items' = r.items
    /\ call' = [op |-> "start", id |-> id, prev |-> Before(items, id),
                log |-> r.log]
    /\ UNCHANGED storeVars

Complete(id, result_path, completed_at) ==
    LET r == mark_done(items, id, result_path, completed_at) IN
    /\ items' = r.items
    /\ call' = [op |-> "complete", id |-> id, prev |-> Before(items, id),
                log |-> r.log]
    /\ UNCHANGED storeVars

Fail(id, error_msg, error_path, completed_at) ==
    LET r == mark_error(items, id, error_msg, error_path, completed_at) IN
    /\ items' = r.items
    /\ call' = [op |-> "fail", id |-> id, prev |-> Before(items, id),
                log |-> r.log]
    /\ UNCHANGED storeVars

Next ==
    \/ \E id \in CallIds : Start(id)
    \/ \E id \in CallIds, rp \in ResultPaths, ca \in CompletedAts :
          Complete(id, rp, ca)
    \/ \E id \in CallIds, em \in ErrorMsgs, ep \in ErrorPaths,
          ca \in CompletedAts : Fail(id, em, ep, ca)

Spec == Init /\ [][Next]_vars

(* ------------------------ claims: the lifecycle ------------------------ *)

\* C1: terminal states are absorbing: a task whose status is done or error
\* keeps that status through every start, complete and fail call.
C1_TerminalAbsorbing ==
    [][/\ Len(items') = Len(items)
       /\ \A i \in 1..Len(items) :
             items[i].status \in Terminal
                => items'[i].status = items[i].status]_vars

\* A fail call has just been rejected on a task that is done, and it is
\* still done.
C1_Witness ==
    /\ call.op = "fail"
    /\ call.prev = Some(DONE)
    /\ call.log = "rejected"
    /\ items[FindTask(items, call.id)].status = DONE

\* C2: while a task is pending or in_progress both paths are null; once it
\* is done only result_path is set, once it is error only error_path is set.
C2_PathsMatchStatus ==
    \A i \in 1..Len(items) :
        /\ items[i].status \in {PENDING, IN_PROGRESS}
              => items[i].result_path = None /\ items[i].error_path = None
        /\ items[i].status = DONE
              => items[i].result_path # None /\ items[i].error_path = None
        /\ items[i].status = ERROR
              => items[i].error_path # None /\ items[i].result_path = None

\* One task of the list has been completed and another has failed.
C2_Witness ==
    /\ \E i \in 1..Len(items) :
          items[i].status = DONE /\ items[i].result_path \in ResultPaths
    /\ \E i \in 1..Len(items) :
          items[i].status = ERROR /\ items[i].error_path \in ErrorPaths

StatusChange(old, new) == <<old, new>>

\* C3 as stated: the only status changes are pending -> in_progress,
\* in_progress -> done and in_progress -> error.
C3_OnlyViaInProgress ==
    [][\A i \in 1..Len(items) :
          items'[i].status # items[i].status
             => StatusChange(items[i].status, items'[i].status)
                   \in {StatusChange(PENDING, IN_PROGRESS),
                        StatusChange(IN_PROGRESS, DONE),
                        StatusChange(IN_PROGRESS, ERROR)}]_vars

\* C3 amended: the only status changes are pending -> in_progress,
\* in_progress -> done, in_progress -> error, and the direct edges
\* pending -> done and pending -> error.
C3_Edges ==
    [][\A i \in 1..Len(items) :
          items'[i].status # items[i].status
             => StatusChange(items[i].status, items'[i].status)
                   \in {StatusChange(PENDING, IN_PROGRESS),
                        StatusChange(IN_PROGRESS, DONE),
                        StatusChange(IN_PROGRESS, ERROR),
                        StatusChange(PENDING, DONE),
                        StatusChange(PENDING, ERROR)}]_vars

\* A complete call found its task pending and left it done.
C3_Witness ==
    /\ call.op = "complete"
    /\ call.prev = Some(PENDING)
    /\ call.log = "marked"
    /\ items[FindTask(items, call.id)].status = DONE

\* The transition table of section 4.3 of the specification, written out.
TableOutcome(op, status) ==
    CASE op = "start" /\ status = PENDING -> "marked"
      [] op = "start" /\ status = IN_PROGRESS -> "no_change"
      [] op = "start" /\ status \in Terminal -> "rejected"
      [] op = "complete" /\ status = DONE -> "no_change"
      [] op = "complete" /\ status = ERROR -> "rejected"
      [] op = "complete" /\ status \in {PENDING, IN_PROGRESS} -> "marked"
      [] op = "fail" /\ status = ERROR -> "no_change"
      [] op = "fail" /\ status = DONE -> "rejected"
      [] op = "fail" /\ status \in {PENDING, IN_PROGRESS} -> "marked"

\* C4: every (status, transition) pair has exactly one outcome, a no-op, a
\* rejection without mutation or a mutation, as the table gives it; a call
\* whose id matches no task leaves every task unchanged.
C4_TableTotal ==
    [][LET i == FindTask(items, call'.id) IN
       /\ call'.log \in {"not_found", "no_change", "rejected", "marked"}
       /\ (i = 0) <=> (call'.log = "not_found")
       /\ i # 0 => call'.log = TableOutcome(call'.op, items[i].status)
       /\ call'.log \in {"not_found", "no_change", "rejected"}
             => items' = items
       /\ call'.log = "marked"
             => /\ items' # items
                /\ \A j \in 1..Len(items) : j # i => items'[j] = items[j]]_vars

\* A complete call named an id that no task of the list carries.
C4_Witness ==
    /\ call.op = "complete"
    /\ call.log = "not_found"
    /\ call.prev = None
    /\ \A i \in 1..Len(items) : items[i].id # call.id


\* The outcome fields of a task.
Outcome(task) ==
    <<task.status, task.result_path, task.error_path, task.error_msg,
      task.completed_at>>

\* C12: the first terminal outcome wins: a task that is done or error keeps
\* its status, result_path, error_path, error_msg and completed_at through
\* every later start, complete and fail call, whatever the arguments.
C12_FirstOutcomeWins ==
    [][/\ Len(items') = Len(items)
       /\ \A i \in 1..Len(items) :
             items[i].status \in Terminal
                => Outcome(items'[i]) = Outcome(items[i])]_vars

\* A task has failed and a complete call on it with a result path has just
\* been rejected: it is in error with its error fields and no result path.
C12_Witness ==
    /\ call.op = "complete"
    /\ call.prev = Some(ERROR)
    /\ call.log = "rejected"
    /\ LET t == items[FindTask(items, call.id)] IN
          /\ t.status = ERROR
          /\ t.error_path \in ErrorPaths
          /\ t.error_msg \in ErrorMsgs
          /\ t.completed_at \in CompletedAts
          /\ t.result_path = None

(* ------------- lifecycle calls on tasks with populated fields ---------- *)
(* The queue file is written upstream: a task of any status may carry      *)
(* values in its outcome fields (a task queued again after a failure, for  *)
(* one).  The lifecycle calls run on lists of such tasks.                  *)

\* A task whose outcome fields all hold earlier values.
UsedTask(id, status) ==
    [id |-> id, status |-> status, priority |-> 7, created_at |-> None,
     result_path |-> Some(Str("r0")), error_path |-> Some(Str("e0")),
     error_msg |-> Some(Str("m0")), completed_at |-> Some(Str("c0"))]

\* Tasks of every status: those of one id as the enqueuer leaves them, those
\* of the other with earlier values.
AnyTasks ==
    {NewTask(Str("a"), st) : st \in Statuses}
    \cup {UsedTask(Str("b"), st) : st \in Statuses}

InitOutcome ==
    /\ items \in TaskLists(AnyTasks)
    /\ call = NoCall
    /\ fs = EmptyDir
    /\ sv = SvIdle
    /\ race = NoRace
    /\ esink = NoErrors
    /\ sink = NoSink
    /\ blk = NoBlock
    /\ cycle = NoCycle
    /\ origin = NoOrigin
    /\ loaded = NoLoad
    /\ selected = NoSelect

SpecOutcome == InitOutcome /\ [][Next]_vars

(* -------------------- claims: complete and fail ------------------------ *)

\* C13: complete on a task that is neither done nor error sets status to
\* done, result_path and completed_at to the values given, error_path and
\* error_msg to null, and leaves id, priority and created_at as they were.
C13_CompleteSets ==
    [][\A id \in CallIds, rp \in ResultPaths, ca \in CompletedAts :
          LET i == FindTask(items, id) IN
          (Complete(id, rp, ca) /\ i # 0 /\ items[i].status \notin Terminal)
             => items'[i] =
                   [id |-> items[i].id, status |-> DONE,
                    priority |-> items[i].priority,
                    created_at |-> items[i].created_at,
                    result_path |-> rp, error_path |-> None,
                    error_msg |-> None, completed_at |-> ca]]_vars

\* A complete call found its task in progress with earlier error fields and
\* left it done with the new result path and no error fields.
C13_Witness ==
    /\ call.op = "complete"
    /\ call.prev = Some(IN_PROGRESS)
    /\ call.log = "marked"
    /\ LET t == items[FindTask(items, call.id)] IN
          /\ t.status = DONE
          /\ t.priority = 7
          /\ t.result_path = Some(Str("r2"))
          /\ t.completed_at = Some(Str("c2"))
          /\ t.error_path = None
          /\ t.error_msg = None

\* C14: fail on a task that is neither error nor done sets status to error,
\* error_msg, error_path and completed_at to the values given, result_path
\* to null, and leaves id, priority and created_at as they were.
C14_FailSets ==
    [][\A id \in CallIds, em \in ErrorMsgs, ep \in ErrorPaths,
          ca \in CompletedAts :
          LET i == FindTask(items, id) IN
          (Fail(id, em, ep, ca) /\ i # 0 /\ items[i].status \notin Terminal)
             => items'[i] =
                   [id |-> items[i].id, status |-> ERROR,
                    priority |-> items[i].priority,
                    created_at |-> items[i].created_at,
                    result_path |-> None, error_path |-> ep,
                    error_msg |-> em, completed_at |-> ca]]_vars

\* A fail call found its task pending with an earlier result path and left
\* it in error with the new error fields and no result path.
C14_Witness ==
    /\ call.op = "fail"
    /\ call.prev = Some(PENDING)
    /\ call.log = "marked"
    /\ LET t == items[FindTask(items, call.id)] IN
          /\ t.status = ERROR
          /\ t.priority = 7
          /\ t.error_msg = Some(Str("m1"))
          /\ t.error_path = Some(Str("e1"))
          /\ t.completed_at = Some(Str("c2"))
          /\ t.result_path = None

(* ------------------- load and save as a state machine ------------------ *)

Task(id, status, priority, created_at, result_path, error_path, error_msg, completed_at) ==
    [id |-> id, status |-> status, priority |-> priority,
     created_at |-> created_at, result_path |-> result_path,
     error_path |-> error_path, error_msg |-> error_msg,
     completed_at |-> completed_at]

\* Schema-valid tasks whose strings hold the characters the encoding must
\* escape, the empty string, the word null, and negative and two-digit
\* priorities.
RichTasks ==
    {Task(Str("a"), PENDING, 5, Some(<<"T1", "Z">>), None, None, None, None),
     Task(Str(DQ), DONE, -12, None, Some(<<"r", BS, DQ>>), None, None,
          Some(Str("c1"))),
     Task(<<"a", LF>>, ERROR, 0, Some(<<>>), None, Some(Str("e1")),
          Some(<<CR, LF, "{", ",", "K:id">>), Some(Str("c2"))),
     Task(<<BS, "n">>, IN_PROGRESS, 10, Some(<<"T1", "Z">>), None, None,
          None, None),
     Task(Str("null"), PENDING, 7, None, None, None, None, None),
     Task(<<>>, DONE, 5, Some(<<"T1", "Z">>), Some(<<>>), None, None,
          Some(Str("}")))}

PlainTask == NewTask(Str("a"), PENDING)

DoneTask ==
    Task(Str("b"), DONE, 3, Some(<<"T1", "Z">>), Some(Str("r1")), None, None,
         Some(Str("c1")))

\* A line of another producer: fewer keys, in another order.
ForeignTask == Task(Str("b"), PENDING, 3, None, None, None, None, None)

ForeignLine ==
    <<"{", "K:status">> \o DumpStr(PENDING) \o <<",", "K:priority", "3", ",",
      "K:id">> \o DumpStr(Str("b")) \o <<"}">>

QueueLine(text, class, task) == [text |-> text, class |-> class, task |-> task]

\* The lines a queue file is made of here: what the line holds, whether it
\* is empty, not JSON, JSON that fails the schema, or a valid entry, and the
\* task a valid entry stands for.
QueueLines ==
    {QueueLine(<<>>, "empty", PlainTask),
     QueueLine(<<"{", "K:id", DQ, "a">>, "bad_json", PlainTask),
     QueueLine(<<"x">>, "bad_json", PlainTask),
     QueueLine(<<"7">>, "bad_schema", PlainTask),
     QueueLine(<<"{", "K:id">> \o DumpStr(Str("a")) \o <<",", "K:priority",
                 "1", "}">>, "bad_schema", PlainTask),
     QueueLine(<<"{", "K:id">> \o DumpStr(Str("a")) \o <<",", "K:status">>
                 \o DumpStr(Str("paused")) \o <<",", "K:priority", "1", "}">>,
               "bad_schema", PlainTask),
     QueueLine(json_dumps(PlainTask), "valid", PlainTask),
     QueueLine(json_dumps(DoneTask), "valid", DoneTask),
     QueueLine(ForeignLine, "valid", ForeignTask)}

MaxLines == 2

LineEnds == {<<LF>>, <<CR, LF>>}

\* The file the lines make, each with its line end; chop drops the last one.
RECURSIVE FileTextFrom(_, _, _, _)
FileTextFrom(lines, ends, chop, k) ==
    IF k > Len(lines) THEN <<>>
    ELSE lines[k].text
         \o (IF chop /\ k = Len(lines) THEN <<>> ELSE ends[k])
         \o FileTextFrom(lines, ends, chop, k + 1)

FileText(lines, ends, chop) == FileTextFrom(lines, ends, chop, 1)

InitLoad ==
    /\ call = NoCall
    /\ sv = SvIdle
    /\ race = NoRace
    /\ esink = NoErrors
    /\ sink = NoSink
    /\ blk = NoBlock
    /\ cycle = NoCycle
    /\ selected = NoSelect
    /\ loaded = NoLoad
    /\ \/ /\ items = <<>>
          /\ \E n \in 0..MaxLines :
             \E lines \in [1..n -> QueueLines], ends \in [1..n -> LineEnds],
                chop \in BOOLEAN :
                /\ origin = [kind |-> "lines", lines |-> lines]
                /\ fs = [EmptyDir EXCEPT
                            ![QueuePath] = Some(FileText(lines, ends, chop))]
       \/ /\ items \in TaskLists(RichTasks) \cup {<<>>}
          /\ origin = NoOrigin
          /\ fs = EmptyDir

\* load_queue(path): open() raises when there is no file.
LoadQ ==
    /\ loaded' = IF fs[QueuePath] = None
                 THEN [raised |-> "FileNotFoundError", items |-> <<>>,
                       skipped |-> 0]
                 ELSE load_queue(fs[QueuePath][1])
    /\ UNCHANGED <<items, call, fs, sv, origin, selected, cycle, blk, sink, esink, race>>

\* save_queue_atomic(path, items) run to its end without a failure.
SaveQ ==
    /\ fs' = [fs EXCEPT ![QueuePath] = Some(Serialize(items))]
    /\ origin' = [kind |-> "saved", lines |-> <<>>]
    /\ loaded' = NoLoad
    /\ UNCHANGED <<items, call, sv, selected, cycle, blk, sink, esink, race>>

NextLoad == LoadQ \/ SaveQ

SpecLoad == InitLoad /\ [][NextLoad]_vars

(* -------------------------- claims: load, save ------------------------- *)

\* C7: after a successful save of schema-valid tasks, load returns a list of
\* the same length whose records equal the saved ones, in order, on all
\* eight fields.
C7_RoundTrip ==
    (origin.kind = "saved" /\ loaded.raised # "not_called")
       => /\ loaded.raised = "none"
          /\ Len(loaded.items) = Len(items)
          /\ \A i \in 1..Len(items) :
                /\ loaded.items[i].id = items[i].id
                /\ loaded.items[i].status = items[i].status
                /\ loaded.items[i].priority = items[i].priority
                /\ loaded.items[i].created_at = items[i].created_at
                /\ loaded.items[i].result_path = items[i].result_path
                /\ loaded.items[i].error_path = items[i].error_path
                /\ loaded.items[i].error_msg = items[i].error_msg
                /\ loaded.items[i].completed_at = items[i].completed_at

\* A saved list of two tasks has been loaded back: a terminal one whose
\* message holds line ends and one whose id is a quote character.
C7_Witness ==
    /\ origin.kind = "saved"
    /\ loaded.raised = "none"
    /\ Len(loaded.items) = 2
    /\ items[1].status = ERROR /\ LF \in {items[1].id[k] : k \in 1..Len(items[1].id)}
    /\ items[2].id = Str(DQ)

ValidLine(l) == l.class = "valid"

BadLine(l) == l.class \in {"bad_json", "bad_schema"}

TasksOf(lines) == [k \in 1..Len(lines) |-> lines[k].task]

CreatedAts ==
    {None, Some(<<>>), Some(<<"T1", "Z">>), Some(<<"T2", "+01:00">>),
     Some(<<"T2", "Z">>), Some(<<"T1">>), Some(<<"L2">>), Some(<<"x">>),
     Some(<<" ", "T1", "Z", " ">>), Some(<<"T1", "x">>)}

Priorities == {1, 2}

\* The tasks of a queue up to their id.
TaskShapes ==
    {[status |-> st, priority |-> p, created_at |-> c] :
        st \in {PENDING, DONE}, p \in Priorities, c \in CreatedAts}

\* The id of the task at position i of the list.
IdAt(i) == Str(Digits[i + 1])

ShapedTask(shape, i) ==
    Task(IdAt(i), shape.status, shape.priority, shape.created_at,
         None, None, None, None)

InitPending ==
    /\ \E n \in 0..MaxTasks : \E shapes \in [1..n -> TaskShapes] :
          items = [i \in 1..n |-> ShapedTask(shapes[i], i)]
    /\ call = NoCall
    /\ fs = EmptyDir
    /\ sv = SvIdle
    /\ race = NoRace
    /\ esink = NoErrors
    /\ sink = NoSink
    /\ blk = NoBlock
    /\ cycle = NoCycle
    /\ origin = NoOrigin
    /\ loaded = NoLoad
    /\ selected = NoSelect

\* iter_pending(items): a new list; the items are left as they are.
Select ==
    /\ selected' = iter_pending(items)
    /\ UNCHANGED <<items, call, fs, sv, origin, loaded, cycle, blk, sink, esink, race>>

NextPending == Select

SpecPending == InitPending /\ [][NextPending]_vars

(* ----------------------- claims: selecting pending --------------------- *)

\* Where a task of the result stands in the input list (ids are distinct).
InputPos(task) == CHOOSE i \in 1..Len(items) : items[i] = task

\* Both created_at values parse as timestamps of one kind, the first earlier.
Earlier(c1, c2) ==
    LET p1 == parse_datetime(c1)
        p2 == parse_datetime(c2)
    IN  /\ p1[1] \in {"naive", "aware"}
        /\ p1[1] = p2[1]
        /\ p1[2] < p2[2]

\* The result holds exactly the pending tasks of the input, each once, by
\* priority descending, then created_at ascending, then input order.
SelectionOrdered(r) ==
    /\ Len(r) = Cardinality({i \in 1..Len(items) : items[i].status = PENDING})
    /\ \A i \in 1..Len(items) :
          Cardinality({k \in 1..Len(r) : r[k] = items[i]})
             = (IF items[i].status = PENDING THEN 1 ELSE 0)
    /\ \A a, b \in 1..Len(r) :
          /\ r[a].priority > r[b].priority => a < b
          /\ (r[a].priority = r[b].priority
                /\ Earlier(r[a].created_at, r[b].created_at)) => a < b
          /\ (r[a].priority = r[b].priority
                /\ r[a].created_at = r[b].created_at
                /\ InputPos(r[a]) < InputPos(r[b])) => a < b

\* C9: select_pending returns exactly the pending tasks of its input, each
\* once, ordered by priority descending, then by earlier created_at, then
\* by input order.
C9_SelectPending ==
    selected.raised # "not_called"
       => selected.raised = "none" /\ SelectionOrdered(selected.result)

\* Tasks whose sort keys are equal stand in the result in input order.
TiesInInputOrder(r) ==
    \A a, b \in 1..Len(r) :
        (a < b /\ SortKey(r[a]) = SortKey(r[b]))
           => InputPos(r[a]) < InputPos(r[b])

\* C10: for every list, also one where tasks of equal priority mix
\* created_at values that parse with values that do not (or are missing),
\* select_pending returns, and ties are in insertion order.
C10_MixedSortReturns ==
    selected.raised # "not_called"
       => selected.raised = "none" /\ TiesInInputOrder(selected.result)

\* Two pending tasks of one priority whose parsed created_at values cannot
\* be compared: None, a string, a naive datetime and an aware datetime are
\* four kinds.
MixedGroup ==
    \E i, j \in 1..Len(items) :
        /\ items[i].status = PENDING /\ items[j].status = PENDING
        /\ items[i].priority = items[j].priority
        /\ parse_datetime(items[i].created_at)[1]
              # parse_datetime(items[j].created_at)[1]

\* What iter_pending does on every input: it raises TypeError exactly when
\* the pending tasks hold a mixed group, and otherwise returns the pending
\* tasks in the order of C9 with ties in input order.
SelectionWhenReturned ==
    selected.raised # "not_called"
       => /\ (selected.raised = "TypeError") <=> MixedGroup
          /\ selected.raised = "none"
                => /\ SelectionOrdered(selected.result)
                   /\ TiesInInputOrder(selected.result)

(* --------------- save_queue_atomic as a state machine ------------------ *)
(* One process calls save_queue_atomic again and again.  sv is the call in *)
(* progress: pc the statement to run next, items the list passed, before   *)
(* the directory as it was when the call began, tmp the name of the        *)
(* temporary file (tmp_file.name), buf what has been written to the file   *)
(* object and not yet to the file, k the next task to write, failed the    *)
(* statement that raised, outcome how the call ended.  The directory      *)
(* holds a file of another process under one of the names a temporary     *)
(* file can take.  An exception is                                        *)
(* raised by the statements that create the temporary file, write a        *)
(* record, flush, fsync and replace; the close and remove calls of the     *)
(* handlers, whose own errors the code discards, are taken to succeed.     *)

MaxSaveLen == 2

SaveTasks == {PlainTask, DoneTask}

SaveLists == UNION {[1..n -> SaveTasks] : n \in 0..MaxSaveLen}

\* A temporary file another process left behind.
StaleDir == [EmptyDir EXCEPT !["tmp_1"] = Some(<<"x">>)]

InitSave ==
    /\ \/ fs = StaleDir
       \/ \E its \in SaveLists :
             fs = [StaleDir EXCEPT ![QueuePath] = Some(Serialize(its))]
    /\ sv = SvIdle
    /\ race = NoRace
    /\ esink = NoErrors
    /\ sink = NoSink
    /\ blk = NoBlock
    /\ cycle = NoCycle
    /\ items = <<>>
    /\ call = NoCall
    /\ origin = NoOrigin
    /\ loaded = NoLoad
    /\ selected = NoSelect

notSave == <<items, call, origin, loaded, selected, cycle, blk, sink, esink, race>>

\* save_queue_atomic(path, items) is called.
CallSave(its) ==
    /\ sv.pc \in {"idle", "returned"}
    /\ sv' = [SvIdle EXCEPT !.pc = "create", !.items = its, !.before = fs]
    /\ UNCHANGED <<fs, notSave>>

\* tmp_file = tempfile.NamedTemporaryFile("w", delete=False, dir=dir_name);
\* when it raises, tmp_file is None and the exception leaves the function.
CreateTemp ==
    /\ sv.pc = "create"
    /\ \/ \E n \in NamedTemporaryFile(fs) :
             /\ fs' = [fs EXCEPT ![n] = Some(<<>>)]
             /\ sv' = [sv EXCEPT !.pc = "write", !.tmp = Some(n)]
       \/ /\ sv' = [sv EXCEPT !.pc = "returned", !.failed = "create",
                              !.outcome = "raised"]
          /\ UNCHANGED fs
    /\ UNCHANGED notSave

\* tmp_file.write(json.dumps(task, ensure_ascii=False) + "\n"): the line
\* joins the buffer, of which any leading part may reach the file.
WriteTask ==
    /\ sv.pc = "write"
    /\ sv.k <= Len(sv.items)
    /\ \/ LET data == sv.buf \o json_dumps(sv.items[sv.k]) \o <<LF>>
          IN  \E j \in 0..Len(data) :
                 /\ fs' = Appended(fs, sv.tmp[1], SubSeq(data, 1, j))
                 /\ sv' = [sv EXCEPT !.buf = SubSeq(data, j + 1, Len(data)),
                                     !.k = sv.k + 1]
       \/ /\ sv' = [sv EXCEPT !.pc = "except_close", !.failed = "write"]
          /\ UNCHANGED fs
    /\ UNCHANGED notSave

\* tmp_file.flush() after the loop.
Flush ==
    /\ sv.pc = "write"
    /\ sv.k > Len(sv.items)
    /\ \/ /\ fs' = Appended(fs, sv.tmp[1], sv.buf)
          /\ sv' = [sv EXCEPT !.pc = "fsync", !.buf = <<>>]
       \/ /\ sv' = [sv EXCEPT !.pc = "except_close", !.failed = "flush"]
          /\ UNCHANGED fs
    /\ UNCHANGED notSave

\* os.fsync(tmp_file.fileno()); temp_path = tmp_file.name
Fsync ==
    /\ sv.pc = "fsync"
    /\ \/ sv' = [sv EXCEPT !.pc = "close"]
       \/ sv' = [sv EXCEPT !.pc = "except_close", !.failed = "fsync"]
    /\ UNCHANGED <<fs, notSave>>

\* except: tmp_file.close(), which writes what is buffered or fails to; its
\* error is discarded.
ExceptClose ==
    /\ sv.pc = "except_close"
    /\ \/ fs' = Appended(fs, sv.tmp[1], sv.buf)
       \/ UNCHANGED fs
    /\ sv' = [sv EXCEPT !.pc = "except_remove", !.buf = <<>>]
    /\ UNCHANGED notSave

\* except: os.remove(tmp_file.name); raise.  finally: tmp_file.close() on
\* the closed file does nothing, and the exception leaves the function.
ExceptRemove ==
    /\ sv.pc = "except_remove"
    /\ fs' = os_remove(fs, sv.tmp[1])
    /\ sv' = [sv EXCEPT !.pc = "returned", !.outcome = "raised"]
    /\ UNCHANGED notSave

\* finally: tmp_file.close(), nothing left to write.
FinallyClose ==
    /\ sv.pc = "close"
    /\ sv' = [sv EXCEPT !.pc = "replace"]
    /\ UNCHANGED <<fs, notSave>>

\* os.replace(temp_path, path)
Replace ==
    /\ sv.pc = "replace"
    /\ \/ /\ fs' = os_replace(fs, sv.tmp[1], QueuePath)
          /\ sv' = [sv EXCEPT !.pc = "returned", !.outcome = "ok"]
       \/ /\ sv' = [sv EXCEPT !.pc = "replace_failed", !.failed = "replace"]
          /\ UNCHANGED fs
    /\ UNCHANGED notSave

\* except: os.remove(temp_path); raise
ReplaceFailed ==
    /\ sv.pc = "replace_failed"
    /\ fs' = os_remove(fs, sv.tmp[1])
    /\ sv' = [sv EXCEPT !.pc = "returned", !.outcome = "raised"]
    /\ UNCHANGED notSave

\* The process is interrupted inside the call: what is buffered is lost,
\* the directory stays as it is, and nothing runs any more.
Crash ==
    /\ sv.pc \notin {"idle", "returned", "crashed"}
    /\ sv' = [sv EXCEPT !.pc = "crashed", !.buf = <<>>]
    /\ UNCHANGED <<fs, notSave>>

NextSave ==
    \/ \E its \in SaveLists : CallSave(its)
    \/ CreateTemp
    \/ WriteTask
    \/ Flush
    \/ Fsync
    \/ ExceptClose
    \/ ExceptRemove
    \/ FinallyClose
    \/ Replace
    \/ ReplaceFailed
    \/ Crash

SpecSave == InitSave /\ [][NextSave]_vars

(* ----------------------- claims: the atomic save ----------------------- *)

\* C5: at every point of save_queue_atomic before the replace, and after an
\* interruption there, the target file is what it was before the call; after
\* the replace it is the complete serialization of the list passed; it never
\* holds part of a serialization.
C5_SaveCrashSafe ==
    /\ sv.pc \in {"create", "write", "fsync", "close", "replace",
                  "except_close", "except_remove", "replace_failed",
                  "crashed"}
          => fs[QueuePath] = sv.before[QueuePath]
    /\ (sv.pc = "returned" /\ sv.outcome = "ok")
          => fs[QueuePath] = Some(Serialize(sv.items))
    /\ sv.pc # "idle"
          => fs[QueuePath] \in {sv.before[QueuePath], Some(Serialize(sv.items))}

\* The process was interrupted with part of a two-task list in the temporary
\* file, and the target still holds the other content it had.
C5_Witness ==
    /\ sv.pc = "crashed"
    /\ Len(sv.items) = 2
    /\ sv.tmp # None
    /\ fs[sv.tmp[1]] # None
    /\ Len(fs[sv.tmp[1]][1]) > 0
    /\ Len(fs[sv.tmp[1]][1]) < Len(Serialize(sv.items))
    /\ sv.before[QueuePath] # None
    /\ sv.before[QueuePath] # Some(Serialize(sv.items))
    /\ fs[QueuePath] = sv.before[QueuePath]

\* C6: when save returns after a failure of creating the temporary file,
\* writing, flush, fsync or replace, the error has been raised to the
\* caller, the target file is as before the call, and the directory holds
\* no temporary file the call created.
C6_FailedSaveCleansUp ==
    (sv.pc = "returned" /\ sv.failed # "none")
       => /\ sv.outcome = "raised"
          /\ fs[QueuePath] = sv.before[QueuePath]
          /\ \A n \in TmpNames : fs[n] = sv.before[n]

\* A save of a non-empty list over an existing queue file has returned after
\* its flush failed with part of the data already in the temporary file.
C6_Witness ==
    /\ sv.pc = "returned"
    /\ sv.failed = "flush"
    /\ sv.outcome = "raised"
    /\ sv.tmp # None
    /\ sv.items # <<>>
    /\ sv.before[QueuePath] # None
    /\ sv.before[QueuePath] # Some(Serialize(sv.items))

(* ------------------ the orchestrator's cycles, as a state machine ------ *)
(* The data flow of the specification: the orchestrator loads the queue,   *)
(* selects the pending tasks, applies lifecycle calls to the list in       *)
(* memory, saves the list, and begins again with a load.  cycle.phase is   *)
(* what comes next, cycle.n the saves made, cycle.last the operation just  *)
(* run.  Two fields record history: cycle.left holds the ids of the tasks  *)
(* seen in a status other than pending, cycle.ends the terminal records    *)
(* seen.                                                                   *)

MaxCycles == 2

\* The ids of the queue file, in file order.
CycleIdSeq == <<Str("t1"), Str("t2")>>

CycleIds == {CycleIdSeq[i] : i \in 1..Len(CycleIdSeq)}

\* A task of the queue file in a given status, with the outcome fields that
\* status carries.
CycleTask(id, status) ==
    CASE status = DONE ->
            Task(id, DONE, 5, Some(<<"T1", "Z">>), Some(Str("r0")), None,
                 None, Some(Str("c0")))
      [] status = ERROR ->
            Task(id, ERROR, 5, Some(<<"T1", "Z">>), None, Some(Str("e0")),
                 Some(Str("m0")), Some(Str("c0")))
      [] OTHER -> NewTask(id, status)

\* The queue files the first load finds: each task under its own id.
CycleQueues ==
    UNION {{[i \in 1..n |-> CycleTask(CycleIdSeq[i], sts[i])] :
               sts \in [1..n -> Statuses]} : n \in 1..Len(CycleIdSeq)}

\* The ids of the tasks of a list that are not pending.
LeftPending(its) == {its[i].id : i \in {j \in 1..Len(its) : its[j].status # PENDING}}

\* The records of a list that are done or error.
Ended(its) == {its[i] : i \in {j \in 1..Len(its) : its[j].status \in Terminal}}

\* The cycle record after an operation that leaves the list as its.
Seen(op, its) ==
    [cycle EXCEPT !.last = op,
                  !.left = cycle.left \cup LeftPending(its),
                  !.ends = cycle.ends \cup Ended(its)]

InitCycle ==
    /\ \E its \in CycleQueues :
          fs = [EmptyDir EXCEPT ![QueuePath] = Some(Serialize(its))]
    /\ items = <<>>
    /\ call = NoCall
    /\ sv = SvIdle
    /\ race = NoRace
    /\ esink = NoErrors
    /\ sink = NoSink
    /\ blk = NoBlock
    /\ cycle = NoCycle
    /\ origin = NoOrigin
    /\ loaded = NoLoad
    /\ selected = NoSelect

\* items = load_queue(path)
CycleLoad ==
    /\ cycle.phase = "load"
    /\ loaded' = load_queue(fs[QueuePath][1])
    /\ items' = loaded'.items
    /\ cycle' = [Seen("load", loaded'.items) EXCEPT !.phase = "work"]
    /\ UNCHANGED <<call, fs, sv, origin, selected, blk, sink, esink, race>>

\* iter_pending(items)
CycleSelect ==
    /\ cycle.phase = "work"
    /\ selected' = iter_pending(items)
    /\ cycle' = Seen("select", items)
    /\ UNCHANGED <<items, call, fs, sv, origin, loaded, blk, sink, esink, race>>

\* A lifecycle call on the list in memory, with its effect r.
CycleCall(op, id, r) ==
    /\ cycle.phase = "work"
    /\ items' = r.items
    /\ call' = [op |-> op, id |-> id, prev |-> Before(items, id),
                log |-> r.log]
    /\ cycle' = Seen(op, r.items)
    /\ UNCHANGED <<fs, sv, origin, loaded, selected, blk, sink, esink, race>>

CycleStart(id) == CycleCall("start", id, mark_in_progress(items, id))

CycleComplete(id, result_path, completed_at) ==
    CycleCall("complete", id, mark_done(items, id, result_path, completed_at))

CycleFail(id, error_msg, error_path, completed_at) ==
    CycleCall("fail", id,
              mark_error(items, id, error_msg, error_path, completed_at))

\* save_queue_atomic(path, items) run to its end without a failure; the
\* next cycle begins.
CycleSave ==
    /\ cycle.phase = "work"
    /\ cycle.n < MaxCycles
    /\ fs' = [fs EXCEPT ![QueuePath] = Some(Serialize(items))]
    /\ cycle' = [Seen("save", items) EXCEPT !.phase = "load", !.n = cycle.n + 1]
    /\ UNCHANGED <<items, call, sv, origin, loaded, selected, blk, sink, esink, race>>

\* The completion time the orchestrator passes in cycle n.
CycleStamp == Some(Str(Digits[cycle.n + 1]))

NextCycle ==
    \/ CycleLoad
    \/ CycleSelect
    \/ \E id \in CycleIds : CycleStart(id)
    \/ \E id \in CycleIds, rp \in ResultPaths :
          CycleComplete(id, rp, CycleStamp)
    \/ \E id \in CycleIds, em \in ErrorMsgs, ep \in ErrorPaths :
          CycleFail(id, em, ep, CycleStamp)
    \/ CycleSave

SpecCycle == InitCycle /\ [][NextCycle]_vars

(* ------------------------- claims: the cycles -------------------------- *)

\* C11: exactly once per unit of work: over the cycles of load, select,
\* lifecycle calls and save, no task is ever seen with two different
\* terminal records, and what iter_pending has just returned holds no task
\* that was seen in a status other than pending, in this cycle or an
\* earlier one.
C11_ExactlyOnce ==
    /\ \A t \in cycle.ends : \A u \in cycle.ends : t.id = u.id => t = u
    /\ cycle.last = "select"
          => \A k \in 1..Len(selected.result) :
                selected.result[k].id \notin cycle.left

\* In a later cycle iter_pending has just returned one of two tasks, the
\* other having been completed in the first cycle.
C11_Witness ==
    /\ cycle.n >= 1
    /\ cycle.last = "select"
    /\ Len(items) = 2
    /\ Len(selected.result) = 1
    /\ \E t \in cycle.ends :
          /\ t.status = DONE
          /\ t.completed_at = Some(Str(Digits[1]))
          /\ t.id # selected.result[1].id

\* C15: records are never deleted and transitions are local: a start,
\* complete or fail call leaves the length of the list and the order of the
\* ids as they were and changes no task but the one its id addresses; a save
\* leaves the list as it is and writes one line for each of its records, in
\* order, whatever their status.
C15_RecordsKept ==
    [][/\ cycle'.last \in {"start", "complete", "fail"}
          => /\ Len(items') = Len(items)
             /\ \A i \in 1..Len(items) :
                   /\ items'[i].id = items[i].id
                   /\ items'[i] # items[i] => i = FindTask(items, call'.id)
       /\ cycle'.last = "save"
          => /\ items' = items
             /\ fs'[QueuePath] # None
             /\ LET lines == ReadLines(fs'[QueuePath][1]) IN
                   /\ Len(lines) = Len(items)
                   /\ \A i \in 1..Len(items) :
                         RStrip(lines[i]) = json_dumps(items[i])]_vars

\* A list of two tasks, one completed and one failed in this run, has just
\* been saved, and the queue file holds the lines of both.
C15_Witness ==
    /\ cycle.last = "save"
    /\ Len(items) = 2
    /\ \E i \in 1..2 :
          items[i].status = DONE /\ items[i].result_path \in ResultPaths
    /\ \E i \in 1..2 :
          items[i].status = ERROR /\ items[i].error_path \in ErrorPaths
    /\ fs[QueuePath] = Some(json_dumps(items[1]) \o <<LF>>
                            \o json_dumps(items[2]) \o <<LF>>)

(* ------------- reading and validating blocks, as a state machine ------- *)
(* blk.file is the block file at hand; a read or a validation of its       *)
(* object leaves its outcome in blk.out, with the operation in blk.op and  *)
(* the strict flag used in blk.strict.                                     *)

Texts ==
    {Text(2, "plain"), Text(2, "euro"), Text(1, "surrogate"),
     Text(27, "plain"), Text(28, "plain"),
     Text(MaxTextLen, "plain"), Text(MaxTextLen + 1, "plain"),
     Text(MaxSizeBytes + 1, "plain")}

Encodings == {"utf-8", "ascii", "no-such", "undefined", NulName}

RecordedSizes ==
    {BInt(0), BInt(2), BInt(6), BInt(25), BInt(100), BInt(MaxTextLen + 1),
     BInt(MaxSizeBytes + 1), BBig(1)}

\* Recorded digests: those of the bytes some text encodes to, one of them in
\* upper case, and one of no such bytes.
RecordedHashes ==
    {Sha256Hex(Bytes(2, "plain")), Sha256Hex(Bytes(6, "euro")),
     Sha256Hex(Bytes(MaxTextLen + 1, "plain")),
     [digest |-> Bytes(2, "plain"), upper |-> TRUE],
     [digest |-> Bytes(0, "other"), upper |-> FALSE]}

SeqPairs ==
    {<<Absent, Absent>>, <<BInt(1), BInt(2)>>, <<BInt(3), BInt(2)>>,
     <<BInt(0), BInt(2)>>, <<BInt(3), Absent>>}

Block(status, text, encoding, size_bytes, hash_sha256, seqs) ==
    [block_id |-> BStr("b1"), seq |-> seqs[1], total_seqs |-> seqs[2],
     text |-> BStr(text), encoding |-> BStr(encoding),
     size_bytes |-> size_bytes, hash_sha256 |-> BStr(hash_sha256),
     status |-> BStr(status)]

\* Blocks that conform to the schema.
GoodBlocks ==
    {Block(st, t, e, sz, h, sq) :
        st \in BlockStatuses, t \in Texts, e \in Encodings,
        sz \in RecordedSizes, h \in RecordedHashes, sq \in SeqPairs}

\* A block changed in one field so that it violates the schema.
Broken(b) ==
    {[b EXCEPT !.block_id = Absent], [b EXCEPT !.text = BInt(5)],
     [b EXCEPT !.status = BStr("lost")], [b EXCEPT !.size_bytes = BStr("2")],
     [b EXCEPT !.hash_sha256 = Absent], [b EXCEPT !.seq = BStr("1")]}

\* Schema-violating blocks, made from blocks with and without integrity
\* violations.
BadBlocks ==
    UNION {Broken(Block(st, t, "utf-8", sz, Sha256Hex(Bytes(2, "plain")),
                        <<BInt(3), BInt(2)>>)) :
              st \in BlockStatuses,
              t \in {Text(2, "plain"), Text(MaxTextLen + 1, "plain")},
              sz \in {BInt(2), BInt(100)}}

BlockFiles ==
    {[kind |-> "object", obj |-> b] : b \in GoodBlocks \cup BadBlocks}

InitBlock ==
    /\ \E f \in BlockFiles : blk = [NoBlock EXCEPT !.file = f]
    /\ items = <<>>
    /\ call = NoCall
    /\ fs = EmptyDir
    /\ sv = SvIdle
    /\ race = NoRace
    /\ esink = NoErrors
    /\ sink = NoSink
    /\ cycle = NoCycle
    /\ origin = NoOrigin
    /\ loaded = NoLoad
    /\ selected = NoSelect

notBlock == <<items, call, fs, sv, cycle, origin, loaded, selected, sink, esink, race>>

\* read_block(path)
ReadBlock ==
    /\ blk' = [blk EXCEPT !.op = "read", !.strict = blk.file.obj.status = BStr("ok"),
                          !.out = read_block(blk.file)]
    /\ UNCHANGED notBlock

\* validate_block(obj, strict=strict)
ValidateBlock(strict) ==
    /\ blk' = [blk EXCEPT !.op = "validate", !.strict = strict,
                          !.out = LET res == validate_block(blk.file.obj, strict)
                                  IN  ReadResult(res, None)]
    /\ UNCHANGED notBlock

NextBlock ==
    \/ ReadBlock
    \/ \E strict \in BOOLEAN : ValidateBlock(strict)

SpecBlock == InitBlock /\ [][NextBlock]_vars

(* ----------------------- claims: the block reader ---------------------- *)

\* The bytes the size and hash rules look at: the text in the declared
\* encoding, or in UTF-8 with substitution when it cannot be encoded.
BytesOf(obj) ==
    LET enc == Encode(obj.text[2], obj.encoding[2])
    IN  IF enc.raised = "none" THEN enc.bytes ELSE EncodeReplace(obj.text[2])

\* An integrity or encoding violation: text too long, text not encodable in
\* the declared encoding, encoded size over the bound, size out of
\* tolerance, or hash mismatch.
Violates(obj) ==
    \/ obj.text[2].len > MaxTextLen
    \/ Encode(obj.text[2], obj.encoding[2]).raised # "none"
    \/ BytesOf(obj).size > MaxSizeBytes
    \/ obj.size_bytes[1] = "big"
    \/ /\ obj.size_bytes[1] = "int"
       /\ significant_mismatch(BytesOf(obj).size, obj.size_bytes[2])
    \/ Sha256Hex(BytesOf(obj)) # obj.hash_sha256[2]

\* The strictness policy on the read of one block.
PolicyKept ==
    /\ (blk.file.obj.status = BStr("ok") /\ Violates(blk.file.obj))
          => /\ blk.out.outcome.raised = "BlockValidationError"
             /\ blk.out.returned = None
    /\ blk.file.obj.status # BStr("ok")
          => /\ blk.out.outcome.raised = "none"
             /\ blk.out.returned = Some(blk.file.obj)

\* C16: on the read of a schema-conforming block, a violation fails the read
\* with a validation error when the status is ok, and when the status is
\* not ok the read never fails and returns the block as it is.
C16_StrictnessPolicy ==
    (blk.op = "read" /\ blk.file.obj \in GoodBlocks) => PolicyKept

\* The encodings whose failure to encode the handler of validate_block
\* catches.
HandledEncoding(obj) ==
    Encode(obj.text[2], obj.encoding[2]).raised
       \in {"none", "LookupError", "UnicodeEncodeError"}

\* The blocks on which no exception other than the validation error leaves
\* validate_block: the encoding is handled and the recorded size fits a
\* float.
Handled(obj) == HandledEncoding(obj) /\ obj.size_bytes[1] = "int"

\* The policy holds on every block whose declared encoding encodes the text
\* or fails with LookupError or UnicodeEncodeError, and whose recorded size
\* fits a float.
PolicyWhenHandled ==
    (blk.op = "read" /\ blk.file.obj \in GoodBlocks
       /\ Handled(blk.file.obj)) => PolicyKept

\* C17: a block that violates the schema fails validation with the schema
\* error whether strict is true or false, before any integrity check: no
\* integrity error and no warning is produced for it.
C17_SchemaAlwaysHard ==
    (blk.op # "none" /\ blk.file.obj \in BadBlocks)
       => /\ blk.out.outcome.raised = "ValidationError"
          /\ blk.out.outcome.rule = "schema"
          /\ blk.out.outcome.warnings = <<>>
          /\ blk.out.returned = None

\* A block with a status outside the enumeration, a text over the length
\* limit and a wrong size has been validated with strict false and failed
\* on the schema.
C17_Witness ==
    /\ blk.op = "validate"
    /\ blk.strict = FALSE
    /\ blk.file.obj \in BadBlocks
    /\ blk.file.obj.status = BStr("lost")
    /\ blk.file.obj.text = BStr(Text(MaxTextLen + 1, "plain"))
    /\ blk.file.obj.size_bytes = BInt(100)
    /\ blk.out.outcome.raised = "ValidationError"


(* ------------------ claims: the rules of the block reader -------------- *)

\* The rules in the order of the checks, the status note last.
RuleOrder ==
    <<"text_length", "encoding", "size_bound", "size_mismatch",
      "hash_mismatch", "sequence", "status">>

\* The rule is violated by the block.
RuleViolated(obj, rule) ==
    CASE rule = "text_length" -> obj.text[2].len > MaxTextLen
      [] rule = "encoding" ->
            Encode(obj.text[2], obj.encoding[2]).raised # "none"
      [] rule = "size_bound" -> BytesOf(obj).size > MaxSizeBytes
      [] rule = "size_mismatch" ->
            \/ obj.size_bytes[1] = "big"
            \/ /\ obj.size_bytes[2] = 0
               /\ BytesOf(obj).size # 0
            \/ /\ obj.size_bytes[2] # 0
               /\ 100 * Abs(BytesOf(obj).size - obj.size_bytes[2])
                     > 8 * obj.size_bytes[2]
      [] rule = "hash_mismatch" ->
            Sha256Hex(BytesOf(obj)) # obj.hash_sha256[2]
      [] rule = "sequence" ->
            /\ obj.seq[1] = "int"
            /\ obj.total_seqs[1] = "int"
            /\ ~(1 <= obj.seq[2] /\ obj.seq[2] <= obj.total_seqs[2])
      [] rule = "status" -> obj.status[2] \in {"damaged", "binary"}

\* The violated rules of a block, in the order of the checks.
ViolatedRules(obj) ==
    SelectSeq(RuleOrder, LAMBDA rule : RuleViolated(obj, rule))

\* The violated rules that strict mode raises on: all but the status note.
HardRules(obj) == SelectSeq(ViolatedRules(obj), LAMBDA rule : rule # "status")

\* The outcome of a validation is the one the order of the rules gives: in
\* strict mode the error of the first violated rule, with the block_id and
\* nothing warned about before it; in non-strict mode one warning for every
\* violated rule, in order, and no error.
OrderKept ==
    LET obj == blk.file.obj
        res == blk.out.outcome
    IN  /\ res.id = obj.block_id
        /\ (blk.strict /\ HardRules(obj) # <<>>)
              => /\ res.raised = "BlockValidationError"
                 /\ res.rule = Head(HardRules(obj))
                 /\ res.warnings = <<>>
        /\ (blk.strict /\ HardRules(obj) = <<>>)
              => /\ res.raised = "none"
                 /\ res.warnings = ViolatedRules(obj)
        /\ ~blk.strict
              => /\ res.raised = "none"
                 /\ res.warnings = ViolatedRules(obj)

\* C21: the checks run in the order text length, encoding, size bound, size
\* tolerance, hash, sequence bound, status; strict validation stops at the
\* first violated rule with an error naming that rule and the block_id, and
\* non-strict validation evaluates every rule and warns once for each
\* violated one.
C21_RulesInOrder ==
    (blk.op # "none" /\ blk.file.obj \in GoodBlocks) => OrderKept

\* The order holds on every block whose encoding is handled and whose
\* recorded size fits a float.
OrderWhenHandled ==
    (blk.op # "none" /\ blk.file.obj \in GoodBlocks /\ Handled(blk.file.obj))
       => OrderKept

\* The place of a rule in the order of the checks.
RuleIndex(rule) == CHOOSE i \in 1..Len(RuleOrder) : RuleOrder[i] = rule

\* The validation got as far as the rule: nothing left the function at an
\* earlier rule.
Reached(rule) ==
    \/ blk.out.outcome.raised = "none"
    \/ /\ blk.out.outcome.rule \in {RuleOrder[i] : i \in 1..Len(RuleOrder)}
       /\ RuleIndex(blk.out.outcome.rule) >= RuleIndex(rule)

\* The validation flagged the rule: as the validation error in strict mode,
\* as a warning otherwise.
Flagged(rule) ==
    \/ /\ blk.strict
       /\ blk.out.outcome.raised = "BlockValidationError"
       /\ blk.out.outcome.rule = rule
    \/ /\ ~blk.strict
       /\ \E i \in 1..Len(blk.out.outcome.warnings) :
             blk.out.outcome.warnings[i] = rule

\* The size-tolerance rule of the claim, with recorded size r and computed
\* size c; r is a tagged integer.
OutOfTolerance(c, r) ==
    \/ r[1] = "big"
    \/ r[2] = 0 /\ c # 0
    \/ r[2] # 0 /\ 100 * Abs(c - r[2]) > 8 * r[2]

\* The recorded size and hash of the block are those of its bytes.
ExactMatch(obj) ==
    /\ obj.size_bytes = BInt(BytesOf(obj).size)
    /\ obj.hash_sha256 = BStr(Sha256Hex(BytesOf(obj)))

\* The size-tolerance rule, where the validation gets as far as to it, flags
\* exactly the sizes out of tolerance, and a block with the exact size and
\* hash is flagged by neither the size-tolerance rule nor the hash rule.
ToleranceKept ==
    LET obj == blk.file.obj
    IN  /\ Reached("size_mismatch")
              => (Flagged("size_mismatch")
                    <=> OutOfTolerance(BytesOf(obj).size, obj.size_bytes))
        /\ ExactMatch(obj)
              => /\ ~Flagged("size_mismatch")
                 /\ ~Flagged("hash_mismatch")

\* C22: over non-negative integer sizes the size-tolerance rule flags iff
\* (r = 0 and c # 0) or (r # 0 and 100 * |c - r| > 8 * r); a block whose
\* recorded size and hash are exact flags neither the size-tolerance rule
\* nor the hash rule.
C22_ToleranceRule ==
    (blk.op # "none" /\ blk.file.obj \in GoodBlocks) => ToleranceKept

\* The size-tolerance rule holds on every block whose recorded size fits a
\* float.
ToleranceWhenFloat ==
    (blk.op # "none" /\ blk.file.obj \in GoodBlocks
       /\ blk.file.obj.size_bytes[1] = "int") => ToleranceKept

ToleranceEdgeSeen ==
    /\ blk.op = "validate"
    /\ ~blk.strict
    /\ blk.file.obj.size_bytes = BInt(25)
    /\ BytesOf(blk.file.obj).size = 27
    /\ ~Flagged("size_mismatch")

(* ------------------- the result sink, as a state machine --------------- *)

Models == {Some(Str("m1")), Some(Str("m2")), None}

Versions == {Some(Str("v1"))}

Payloads ==
    {[kind |-> "analysis", summary |-> "s1"],
     [kind |-> "analysis", summary |-> "s2"],
     [kind |-> "other", summary |-> "s1"]}

CompletedIsos == {Some(Str("c1")), Some(Str("c2"))}

InitSink ==
    /\ sink = NoSink
    /\ items = <<>>
    /\ call = NoCall
    /\ fs = EmptyDir
    /\ sv = SvIdle
    /\ race = NoRace
    /\ esink = NoErrors
    /\ cycle = NoCycle
    /\ blk = NoBlock
    /\ origin = NoOrigin
    /\ loaded = NoLoad
    /\ selected = NoSelect

notSink == <<items, call, fs, sv, cycle, blk, origin, loaded, selected, esink, race>>

\* One call of write_result.  sink.last keeps what the call found (before)
\* and what it gave; sink.first keeps the content of the first write of each
\* path that succeeded.
WriteResult(block_id, model, version, payload, completed, fault) ==
    LET r == write_result(sink.files, block_id, model, version, payload,
                          completed, fault)
        p == ResultPathOf(block_id)
    IN  /\ sink' =
             [files |-> r.files,
              first |-> IF sink.first[p] = None /\ r.raised = "none"
                        THEN [sink.first EXCEPT ![p] = r.files[p]]
                        ELSE sink.first,
              last |-> [op |-> "write_result", block_id |-> block_id,
                        before |-> sink.files[p], raised |-> r.raised,
                        returned |-> r.returned]]
        /\ UNCHANGED notSink

NextSink ==
    \E b \in BlockIds, mo \in Models, v \in Versions, pl \in Payloads,
       c \in CompletedIsos, fault \in {"none", "write"} :
       WriteResult(b, mo, v, pl, c, fault)

SpecSink == InitSink /\ [][NextSink]_vars

(* ------------------------ claims: the result sink ---------------------- *)

\* Each result file holds the content of the first write of its path that
\* succeeded, and a call that found a file has left it as it was.
FirstResultKept ==
    /\ \A p \in ResultPathsOf : sink.files[p] = sink.first[p]
    /\ (sink.last.op = "write_result" /\ sink.last.before # None)
          => sink.files[ResultPathOf(sink.last.block_id)] = sink.last.before

\* C18 as stated: write_result is idempotent per block_id: the file holds the
\* content of the first successful write, and every later call for that
\* block_id returns the same path and leaves the file as it was, whatever
\* its arguments.
C18_EveryLaterCallReturns ==
    /\ FirstResultKept
    /\ (sink.last.op = "write_result" /\ sink.last.before # None)
          => /\ sink.last.raised = "none"
             /\ sink.last.returned = Some(ResultPathOf(sink.last.block_id))

\* C18 amended: the file holds the content of the first successful write and
\* no later call changes it; a later call returns the same path when its
\* payload and wrapper pass the schemas, and raises the schema error when
\* they do not.
C18_FirstResultWins ==
    /\ FirstResultKept
    /\ (sink.last.op = "write_result" /\ sink.last.before # None)
          => \/ /\ sink.last.raised = "none"
                /\ sink.last.returned =
                      Some(ResultPathOf(sink.last.block_id))
             \/ /\ sink.last.raised = "ValidationError"
                /\ sink.last.returned = None

\* A call for a block whose result exists, made with another model and
\* payload, has returned the path and the file still holds the first result.
C18_Witness ==
    /\ sink.last.op = "write_result"
    /\ sink.last.before # None
    /\ sink.last.raised = "none"
    /\ sink.last.returned = Some(ResultPathOf("b1"))
    /\ sink.files[ResultPathOf("b1")] = sink.last.before
    /\ sink.last.before[1][2].model = Some(Str("m1"))
    /\ sink.files[ResultPathOf("b2")] # None
    /\ sink.files[ResultPathOf("b2")][1][2].model = Some(Str("m2"))

(* -------------------- the error sink, as a state machine --------------- *)

\* Two block ids, the second of the form of a suffixed name of the first.
ErrorBlockIds == {<<"b">>, <<"b", "_", "_", "1", "2">>}

\* Timestamps: one with and one without separators for the same instant,
\* and another instant.
Timestamps == {<<"1", "-", "2">>, <<"1", "2">>, <<"1", ":", "3">>}

ErrorTypes == {Some(Str("Network")), None}

ErrorDetails == {Str("d1"), Str("d2")}

InitErrors ==
    /\ esink = NoErrors
    /\ sink = NoSink
    /\ items = <<>>
    /\ call = NoCall
    /\ fs = EmptyDir
    /\ sv = SvIdle
    /\ race = NoRace
    /\ cycle = NoCycle
    /\ blk = NoBlock
    /\ origin = NoOrigin
    /\ loaded = NoLoad
    /\ selected = NoSelect

notErrors == <<items, call, fs, sv, cycle, blk, sink, origin, loaded, selected, race>>

\* One call of write_error.  esink.log keeps, for each call that returned,
\* its block id, timestamp, path and the content it wrote; esink.last keeps
\* the directory the call found.
WriteError(block_id, error_type, error_detail, timestamp_iso) ==
    LET r == write_error(esink.files, block_id, Str("t1"), error_type,
                         error_detail, None, timestamp_iso)
    IN  /\ esink.n < MaxErrors
        /\ esink' =
             [files |-> r.files,
              n |-> esink.n + 1,
              log |-> IF r.raised = "none"
                      THEN Append(esink.log,
                                  [block_id |-> block_id,
                                   timestamp |-> timestamp_iso,
                                   path |-> r.returned[1],
                                   content |-> r.files[r.returned[1]]])
                      ELSE esink.log,
              last |-> [op |-> "write_error", block_id |-> block_id,
                        before |-> esink.files, raised |-> r.raised,
                        returned |-> r.returned]]
        /\ UNCHANGED notErrors

NextErrors ==
    \E b \in ErrorBlockIds, ty \in ErrorTypes, d \in ErrorDetails,
       ts \in Timestamps :
       WriteError(b, ty, d, ts)

SpecErrors == InitErrors /\ [][NextErrors]_vars

(* ------------------------- claims: the error sink ---------------------- *)

\* All the writes so far were for one block id.
OneBlock == \A i, j \in 1..Len(esink.log) :
                esink.log[i].block_id = esink.log[j].block_id

\* Each write so far has its own file, holding what the write put there, and
\* there are no other files.
EveryWriteKept ==
    /\ \A i, j \in 1..Len(esink.log) :
          i # j => esink.log[i].path # esink.log[j].path
    /\ \A i \in 1..Len(esink.log) :
          /\ esink.log[i].path \in DOMAIN esink.files
          /\ esink.files[esink.log[i].path] = esink.log[i].content
    /\ Cardinality(DOMAIN esink.files) = Len(esink.log)

\* C19: n calls of write_error for the same block_id with pairwise different
\* timestamps leave n distinct files, each holding the error object of its
\* own call.
C19_DistinctFiles ==
    (/\ OneBlock
     /\ \A i, j \in 1..Len(esink.log) :
           i # j => esink.log[i].timestamp # esink.log[j].timestamp)
       => EveryWriteKept

\* Where the timestamps of one block's calls still differ pairwise after the
\* separators are removed, every write is kept.
DistinctWhenSuffixesDiffer ==
    (/\ OneBlock
     /\ \A i, j \in 1..Len(esink.log) :
           i # j => suffix_ts(esink.log[i].timestamp)
                       # suffix_ts(esink.log[j].timestamp))
       => EveryWriteKept

\* C20: a call of write_error that finds an error file for its block_id
\* writes to a name that did not exist, and no file written before is
\* written over, whatever the block ids and timestamps of the calls.
C20_CollisionFree ==
    (esink.last.op = "write_error" /\ esink.last.raised = "none")
       => /\ base_file(esink.last.block_id) \in DOMAIN esink.last.before
                => esink.last.returned[1] \notin DOMAIN esink.last.before
          /\ \A name \in DOMAIN esink.last.before :
                esink.files[name] = esink.last.before[name]

\* A call that finds no file of the name it composes leaves every file it
\* found as it was.
KeptWhenNameIsFree ==
    (/\ esink.last.op = "write_error"
     /\ esink.last.raised = "none"
     /\ esink.last.returned[1] \notin DOMAIN esink.last.before)
       => \A name \in DOMAIN esink.last.before :
             esink.files[name] = esink.last.before[name]

(* ------------- two writers on one queue file, as a state machine ------- *)
(* Each writer runs load_queue, one lifecycle call and save_queue_atomic,  *)
(* statement by statement, with no lock: the steps of the two interleave   *)
(* in every way.  The directory fs is shared, everything else is the       *)
(* writer's own.  A statement of the save may raise as in a single save;   *)
(* the handler's close and remove are one step.  Of the data written to    *)
(* the file object, nothing, half, or all reaches the file at once.        *)

\* The queue files the writers find: two open tasks.
RaceQueues ==
    {<<CycleTask(CycleIdSeq[1], s1), CycleTask(CycleIdSeq[2], s2)>> :
        s1 \in {PENDING, IN_PROGRESS}, s2 \in {PENDING, IN_PROGRESS}}

InitRace ==
    /\ \E its \in RaceQueues :
          /\ fs = [EmptyDir EXCEPT ![QueuePath] = Some(Serialize(its))]
          /\ race = [NoRace EXCEPT !.first = Some(Serialize(its))]
    /\ items = <<>>
    /\ call = NoCall
    /\ sv = SvIdle
    /\ esink = NoErrors
    /\ sink = NoSink
    /\ blk = NoBlock
    /\ cycle = NoCycle
    /\ origin = NoOrigin
    /\ loaded = NoLoad
    /\ selected = NoSelect

notRace == <<items, call, sv, cycle, blk, sink, esink, origin, loaded, selected>>

\* The writer p, with its record changed to w.
Writer(p, w) == [race EXCEPT !.w[p] = w]

\* items = load_queue(path)
RaceLoad(p) ==
    /\ race.w[p].pc = "load"
    /\ race' = Writer(p, [race.w[p] EXCEPT
                            !.pc = "work",
                            !.items = load_queue(fs[QueuePath][1]).items,
                            !.epoch = Len(race.replaced)])
    /\ UNCHANGED <<fs, notRace>>

\* One lifecycle call on the writer's list, with its effect r.
RaceCall(p, op, id, r) ==
    /\ race.w[p].pc = "work"
    /\ race' = Writer(p, [race.w[p] EXCEPT
                            !.pc = "create",
                            !.items = r.items,
                            !.did = [op |-> op, id |-> id, log |-> r.log,
                                     prev |-> Before(race.w[p].items, id)]])
    /\ UNCHANGED <<fs, notRace>>

RaceStart(p, id) ==
    RaceCall(p, "start", id, mark_in_progress(race.w[p].items, id))

RaceComplete(p, id) ==
    RaceCall(p, "complete", id,
             mark_done(race.w[p].items, id, Some(Str("r1")), Some(Str("c1"))))

\* tmp_file = tempfile.NamedTemporaryFile("w", delete=False, dir=dir_name)
RaceCreateTemp(p) ==
    /\ race.w[p].pc = "create"
    /\ \/ \E n \in NamedTemporaryFile(fs) :
             /\ fs' = [fs EXCEPT ![n] = Some(<<>>)]
             /\ race' = Writer(p, [race.w[p] EXCEPT !.pc = "write",
                                                    !.tmp = Some(n)])
       \/ /\ race' = Writer(p, [race.w[p] EXCEPT !.pc = "returned",
                                                 !.outcome = "raised"])
          /\ UNCHANGED fs
    /\ UNCHANGED notRace

\* How much of the buffered data reaches the file at a write.
Chunks(data) == {0, Len(data) \div 2, Len(data)}

\* tmp_file.write(json.dumps(task, ensure_ascii=False) + "\n")
RaceWriteTask(p) ==
    LET w == race.w[p]
    IN  /\ w.pc = "write"
        /\ w.k <= Len(w.items)
        /\ \/ LET data == w.buf \o json_dumps(w.items[w.k]) \o <<LF>>
              IN  \E j \in Chunks(data) :
                     /\ fs' = Appended(fs, w.tmp[1], SubSeq(data, 1, j))
                     /\ race' = Writer(p, [w EXCEPT
                                   !.buf = SubSeq(data, j + 1, Len(data)),
                                   !.k = w.k + 1])
           \/ /\ race' = Writer(p, [w EXCEPT !.pc = "except"])
              /\ UNCHANGED fs
        /\ UNCHANGED notRace

\* tmp_file.flush(); os.fsync(tmp_file.fileno()); temp_path = tmp_file.name
RaceFlush(p) ==
    LET w == race.w[p]
    IN  /\ w.pc = "write"
        /\ w.k > Len(w.items)
        /\ \/ /\ fs' = Appended(fs, w.tmp[1], w.buf)
              /\ race' = Writer(p, [w EXCEPT !.pc = "replace", !.buf = <<>>])
           \/ /\ race' = Writer(p, [w EXCEPT !.pc = "except"])
              /\ UNCHANGED fs
        /\ UNCHANGED notRace

\* except: tmp_file.close(); os.remove(tmp_file.name); raise
RaceExcept(p) ==
    /\ race.w[p].pc = "except"
    /\ fs' = os_remove(fs, race.w[p].tmp[1])
    /\ race' = Writer(p, [race.w[p] EXCEPT !.pc = "returned", !.buf = <<>>,
                                           !.outcome = "raised"])
    /\ UNCHANGED notRace

\* os.replace(temp_path, path); when it raises: os.remove(temp_path); raise
RaceReplace(p) ==
    LET w == race.w[p]
    IN  /\ w.pc = "replace"
        /\ \/ /\ fs' = os_replace(fs, w.tmp[1], QueuePath)
              /\ race' = [Writer(p, [w EXCEPT !.pc = "returned",
                                              !.outcome = "ok"])
                             EXCEPT !.replaced = Append(race.replaced, p)]
           \/ /\ fs' = os_remove(fs, w.tmp[1])
              /\ race' = Writer(p, [w EXCEPT !.pc = "returned",
                                             !.outcome = "raised"])
        /\ UNCHANGED notRace

NextRace ==
    \E p \in Writers :
       \/ RaceLoad(p)
       \/ \E id \in CycleIds : RaceStart(p, id)
       \/ \E id \in CycleIds : RaceComplete(p, id)
       \/ RaceCreateTemp(p)
       \/ RaceWriteTask(p)
       \/ RaceFlush(p)
       \/ RaceExcept(p)
       \/ RaceReplace(p)

SpecRace == InitRace /\ [][NextRace]_vars

(* ------------------------ claims: racing writers ----------------------- *)

\* The status of the task of an id in a list.
StatusOf(its, id) == its[FindTask(its, id)].status

\* The tasks the queue file holds now.
FileTasks == load_queue(fs[QueuePath][1]).items

\* Both saves have returned without an exception.
BothSaved == \A p \in Writers : race.w[p].outcome = "ok"

\* Writer q loaded before any replace, and the writers changed different
\* tasks.
Stale(p, q) ==
    /\ race.w[q].epoch = 0
    /\ race.w[p].did.log = "marked"
    /\ race.w[q].did.log = "marked"
    /\ race.w[p].did.id # race.w[q].did.id

\* C24: with no lock, two writers that each load, make a lifecycle
\* transition and save can both succeed and leave a queue file without the
\* transition of one of them: when both saves have succeeded the file is the
\* list of the writer that replaced last, and if that writer loaded before
\* the other's replace, the task the other changed is back in its earlier
\* status.
C24_LostUpdate ==
    BothSaved
       => LET p == race.replaced[1]
              q == race.replaced[2]
          IN  /\ fs[QueuePath] = Some(Serialize(race.w[q].items))
              /\ Stale(p, q)
                    => /\ Some(StatusOf(FileTasks, race.w[p].did.id))
                             = race.w[p].did.prev
                       /\ StatusOf(FileTasks, race.w[p].did.id)
                             # StatusOf(race.w[p].items, race.w[p].did.id)

\* Both saves have succeeded; the first writer had completed the first task,
\* the second had started the second task, and the file holds the first task
\* as pending.
C24_Witness ==
    /\ BothSaved
    /\ race.replaced = <<"w1", "w2">>
    /\ race.w["w1"].did.op = "complete"
    /\ race.w["w1"].did.log = "marked"
    /\ race.w["w1"].did.id = CycleIdSeq[1]
    /\ race.w["w1"].did.prev = Some(PENDING)
    /\ StatusOf(race.w["w1"].items, CycleIdSeq[1]) = DONE
    /\ race.w["w2"].did.log = "marked"
    /\ race.w["w2"].did.id = CycleIdSeq[2]
    /\ StatusOf(FileTasks, CycleIdSeq[1]) = PENDING
    /\ StatusOf(FileTasks, CycleIdSeq[2]) = IN_PROGRESS

\* C25: whatever the interleaving of two writers, each with its own
\* temporary file, the queue file is at every instant the content the
\* writers found or the complete serialization of the list of one save call,
\* the one whose replace came last; never a mixture or a part.
C25_TargetWhole ==
    fs[QueuePath] =
       IF race.replaced = <<>> THEN race.first
       ELSE Some(Serialize(race.w[race.replaced[Len(race.replaced)]].items))

\* One writer has replaced the queue file while the other has part of its
\* own list, different from the first's, in its temporary file.
C25_Witness ==
    /\ race.replaced = <<"w1">>
    /\ race.w["w2"].pc = "write"
    /\ race.w["w2"].tmp # None
    /\ fs[race.w["w2"].tmp[1]] # None
    /\ Len(fs[race.w["w2"].tmp[1]][1]) > 0
    /\ Len(fs[race.w["w2"].tmp[1]][1]) < Len(Serialize(race.w["w2"].items))
    /\ race.w["w2"].items # race.w["w1"].items
    /\ fs[QueuePath] = Some(Serialize(race.w["w1"].items))
    /\ fs[QueuePath] # race.first

====
